---------------------------- MODULE Spec2Model ----------------------------
(***************************************************************************)
(* Model of the drawlatch ingestor subsystem: the bounded ring buffer, the *)
(* base ingestor that owns one, the GitHub webhook ingestor and the        *)
(* ingestor manager's registry.                                            *)
(*                                                                         *)
(* The specifications of this module:                                      *)
(*   SpecRing         - one RingBuffer driven by push / clear              *)
(*   SpecIngestor     - one GitHubWebhookIngestor (BaseIngestor + ring)    *)
(*   SpecManager      - the IngestorManager registry and its lifecycle     *)
(*   SpecStripeVerify - verifyStripeSignature applied to drawn arguments   *)
(*   SpecStripe       - one StripeWebhookIngestor and its webhook calls    *)
(*   SpecPoll         - the manager polled while its ingestors get events   *)
(*   SpecMerge        - mergeIngestorConfig applied to drawn arguments      *)
(*   SpecTunnel       - startTunnel, its cloudflared child and its timers   *)
(***************************************************************************)
EXTENDS Integers, Sequences, FiniteSets, TLC

VARIABLES
    rb,           \* SpecRing: the RingBuffer object {capacity, buffer, head, count}
    pushed,       \* SpecRing history: the items pushed since construction / last clear
    everCleared,  \* SpecRing history: clear() has been called on this buffer
    ing,          \* SpecIngestor: the GitHubWebhookIngestor object
    now,          \* SpecIngestor: the wall clock read by new Date()
    issued,       \* SpecIngestor history: every event id pushEvent has assigned, in order
    stream,       \* SpecIngestor history: how far the run is through evict, clear, push
    last,         \* SpecIngestor history: the last call made and what it returned
    ingestors,    \* SpecManager: IngestorManager.ingestors, the Map in insertion order
    instances,    \* SpecManager: every ingestor object created so far
    mlast,        \* SpecManager history: the last manager call and what it returned
    sreq,         \* SpecStripeVerify: the arguments verifyStripeSignature is called with
    sres,         \* SpecStripeVerify: the last call's clock reading and return value
    sclock,       \* SpecStripeVerify / SpecStripe: Date.now(), in milliseconds
    stripe,       \* SpecStripe: the StripeWebhookIngestor object
    slast,        \* SpecStripe history: the last call made and what it returned
    mem,          \* SpecMerge: the objects (config and its blocks) by address
    mcall,        \* SpecMerge: the mergeIngestorConfig call, its arguments and result
    tun,          \* SpecTunnel: startTunnel's closure, its child process and timers
    client,       \* a polling client: its cursor and the events it has received
    tasks         \* the manager calls that are waiting at an await

vars == <<rb, pushed, everCleared, ing, now, issued, stream, last,
          ingestors, instances, mlast, sreq, sres, sclock, stripe, slast,
          mem, mcall, tun, client, tasks>>

ringVars == <<rb, pushed, everCleared>>
ingVars  == <<ing, now, issued, stream, last>>
mgrVars  == <<ingestors, instances, mlast>>
stripeVars == <<sreq, sres, sclock, stripe, slast>>
mergeVars  == <<mem, mcall>>
tunnelVars == <<tun>>
clientVars == <<client>>
taskVars   == <<tasks>>

-----------------------------------------------------------------------------
(* Bounds of the model *)

MaxCapacity == 3      \* ring capacities 1..MaxCapacity
MaxPushes   == 5      \* pushes into the bare ring between two clears
MaxRingId   == 2      \* numeric ids 0..MaxRingId of the bare ring's items

Min(a, b) == IF a < b THEN a ELSE b

-----------------------------------------------------------------------------
(* RingBuffer<T>  (src/src/remote/ingestors/ring-buffer.ts) *)

\* An array slot that was never written: `undefined`.
Undefined == [undefined |-> TRUE]

\* constructor(capacity): buffer = new Array(capacity), head = 0, count = 0
RingBuffer(capacity) ==
    [capacity |-> capacity,
     buffer   |-> [i \in 0 .. capacity - 1 |-> Undefined],
     head     |-> 0,
     count    |-> 0]

\* A push that forgets to saturate the count at capacity.
pushUnsaturated(r, item) ==
    [r EXCEPT !.buffer[r.head] = item,
              !.head = (r.head + 1) % r.capacity,
              !.count = r.count + 1]

\* push(item): write at head, advance head modulo capacity, saturate count
push(r, item) ==
    [r EXCEPT !.buffer[r.head] = item,
              !.head = (r.head + 1) % r.capacity,
              !.count = IF r.count < r.capacity THEN r.count + 1 ELSE r.count]

\* A toArray that always starts reading at slot 0.
toArrayFromZero(r) ==
    IF r.count = 0 THEN <<>>
    ELSE [i \in 1 .. r.count |-> r.buffer[(i - 1) % r.capacity]]

\* toArray(): the count stored items, oldest first
toArray(r) ==
    IF r.count = 0 THEN <<>>
    ELSE LET start == (r.head - r.count + r.capacity) % r.capacity
         IN  [i \in 1 .. r.count |-> r.buffer[(start + i - 1) % r.capacity]]

\* typeof (item as Record<string, unknown>).id
\* An item with a numeric id carries field id; an item whose id is a string
\* carries it in field sid; any other item has no id at all.
TypeofId(item) ==
    IF "id" \in DOMAIN item THEN "number"
    ELSE IF "sid" \in DOMAIN item THEN "string"
    ELSE "undefined"

\* A filter callback that compares with >= instead of >.
sinceKeepsInclusive(item, afterId) == TypeofId(item) = "number" /\ item.id >= afterId

\* The filter callback of since(): typeof id === 'number' && id > afterId
sinceKeeps(item, afterId) == TypeofId(item) = "number" /\ item.id > afterId

RECURSIVE filterSince(_, _)
\* Array.prototype.filter with the callback of since(), walking the array in order
filterSince(arr, afterId) ==
    IF arr = <<>> THEN <<>>
    ELSE IF sinceKeeps(Head(arr), afterId)
         THEN <<Head(arr)>> \o filterSince(Tail(arr), afterId)
         ELSE filterSince(Tail(arr), afterId)

\* since(afterId): this.toArray().filter(...)
since(r, afterId) == filterSince(toArray(r), afterId)

\* get size(): count
size(r) == r.count

\* A clear that replaces the array and resets head but leaves the count.
clearKeepsCount(r) ==
    [r EXCEPT !.buffer = [i \in 0 .. r.capacity - 1 |-> Undefined],
              !.head = 0]

\* clear(): a new array, head = 0, count = 0
clear(r) ==
    [r EXCEPT !.buffer = [i \in 0 .. r.capacity - 1 |-> Undefined],
              !.head = 0,
              !.count = 0]

-----------------------------------------------------------------------------
(* SpecRing: one RingBuffer under push and clear *)

\* The items pushed into the bare ring: numeric ids, a string id, no id.
RingItems ==
    {[id |-> n] : n \in 0 .. MaxRingId} \cup {[sid |-> "a"], [value |-> 1]}

\* The cursors since() is asked about.
RingCursors == -1 .. MaxRingId + 1


RingPush(item) ==
    /\ Len(pushed) < MaxPushes
    /\ rb' = push(rb, item)
    /\ pushed' = Append(pushed, item)
    /\ UNCHANGED <<everCleared, ingVars, mgrVars, stripeVars, mergeVars, tunnelVars, clientVars, taskVars>>

RingClear ==
    /\ rb' = clear(rb)
    /\ pushed' = <<>>
    /\ everCleared' = TRUE
    /\ UNCHANGED <<ingVars, mgrVars, stripeVars, mergeVars, tunnelVars, clientVars, taskVars>>

-----------------------------------------------------------------------------
(* BaseIngestor  (src/unnamed/part_001, base-ingestor.js) *)

MaxEvents         == 3   \* events one ingestor receives (bounds totalEventsReceived)
MaxIngestorBuffer == 2   \* bufferSize values 1..MaxIngestorBuffer given to the constructor

\* A string-valued field or header that is absent: `undefined`.
UNDEF == "<undefined>"

\* JavaScript truthiness of a string | undefined value
Truthy(s) == s # UNDEF /\ s # ""

\* lastEventAt before any event: null
Null == [null |-> TRUE]

\* No client is polling.
NoClient == [polling |-> FALSE]

\* No manager call is waiting at an await.
NoTasks == [startAll |-> <<>>, stopping |-> FALSE]

\* new Date().toISOString() for the clock reading t
toISOString(t) == [iso |-> t]

\* The members a plain object inherits from Object.prototype
\* (Object.getOwnPropertyNames(Object.prototype)).
ObjectPrototypeMembers ==
    {"constructor", "__defineGetter__", "__defineSetter__", "hasOwnProperty",
     "__lookupGetter__", "__lookupSetter__", "isPrototypeOf",
     "propertyIsEnumerable", "toString", "valueOf", "__proto__", "toLocaleString"}

\* What an inherited member reads as: a function or an object, which is
\* truthy and is not a string.
InheritedMember == "<inherited from Object.prototype>"

\* secrets[name] on a plain object: the own property of that name, else the
\* member of that name inherited from Object.prototype, else undefined
SecretLookup(secrets, name) ==
    IF name \in DOMAIN secrets THEN secrets[name]
    ELSE IF name \in ObjectPrototypeMembers THEN InheritedMember
    ELSE UNDEF

\* An optional argument: omitted, or given with a value.
Omitted == [given |-> FALSE]
Given(v) == [given |-> TRUE, value |-> v]

\* A default parameter (x = d): the default is taken when the argument is
\* undefined.
DefaultArg(arg, default) == IF arg.given THEN arg.value ELSE default

\* export const DEFAULT_BUFFER_SIZE = 200
DEFAULT_BUFFER_SIZE == 200

\* The default parameter of the BaseIngestor constructor:
\* bufferSize = DEFAULT_BUFFER_SIZE, taken when the argument is undefined.
bufferSizeParameter(arg) == DefaultArg(arg, DEFAULT_BUFFER_SIZE)

\* constructor(connectionAlias, ingestorType, secrets, bufferSize)
BaseIngestor(connectionAlias, ingestorType, secrets, bufferSize) ==
    [connectionAlias     |-> connectionAlias,
     ingestorType        |-> ingestorType,
     secrets             |-> secrets,
     state               |-> "stopped",
     buffer              |-> RingBuffer(bufferSize),
     totalEventsReceived |-> 0,
     lastEventAt         |-> Null,
     errorMessage        |-> UNDEF]

\* An event whose source is the ingestor's type instead of its connection.
newEventSourceType(i, eventType, data, t) ==
    [id         |-> i.totalEventsReceived,
     receivedAt |-> toISOString(t),
     source     |-> i.ingestorType,
     eventType  |-> eventType,
     data       |-> data]

\* The event pushEvent builds: id is the counter before its increment.
newEvent(i, eventType, data, t) ==
    [id         |-> i.totalEventsReceived,
     receivedAt |-> toISOString(t),
     source     |-> i.connectionAlias,
     eventType  |-> eventType,
     data       |-> data]

\* A pushEvent that takes the id from the buffer's size instead of the counter.
pushEventIdFromSize(i, eventType, data, t) ==
    LET event == [newEvent(i, eventType, data, t) EXCEPT !.id = size(i.buffer)]
    IN  [i EXCEPT !.totalEventsReceived = @ + 1,
                  !.buffer = push(@, event),
                  !.lastEventAt = event.receivedAt]

\* A pushEvent that increments the counter before taking the id (++x for x++).
pushEventPreIncrement(i, eventType, data, t) ==
    LET event == [newEvent(i, eventType, data, t) EXCEPT !.id = i.totalEventsReceived + 1]
    IN  [i EXCEPT !.totalEventsReceived = @ + 1,
                  !.buffer = push(@, event),
                  !.lastEventAt = event.receivedAt]

\* pushEvent(eventType, data), the clock reading t being new Date()
pushEvent(i, eventType, data, t) ==
    LET event == newEvent(i, eventType, data, t)
    IN  [i EXCEPT !.totalEventsReceived = @ + 1,
                  !.buffer = push(@, event),
                  !.lastEventAt = event.receivedAt]

\* A getEvents whose test for "everything" is afterId <= 0.
getEventsZeroIsAll(i, afterId) ==
    IF afterId <= 0 THEN toArray(i.buffer) ELSE since(i.buffer, afterId)

\* A getEvents that returns the whole buffer whatever the cursor.
getEventsIgnoresCursor(i, afterId) == toArray(i.buffer)

\* getEvents(afterId = -1)
getEvents(i, afterId) ==
    IF afterId < 0 THEN toArray(i.buffer) ELSE since(i.buffer, afterId)

\* A getStatus that reports the events ever received as the buffered ones.
getStatusBufferedIsTotal(i) ==
    [connection          |-> i.connectionAlias,
     type                |-> i.ingestorType,
     state               |-> i.state,
     bufferedEvents      |-> i.totalEventsReceived,
     totalEventsReceived |-> i.totalEventsReceived,
     lastEventAt         |-> i.lastEventAt]

\* getStatus(): the fields the claims read
getStatus(i) ==
    IF Truthy(i.errorMessage)
    THEN [connection          |-> i.connectionAlias,
          type                |-> i.ingestorType,
          state               |-> i.state,
          bufferedEvents      |-> size(i.buffer),
          totalEventsReceived |-> i.totalEventsReceived,
          lastEventAt         |-> i.lastEventAt,
          error               |-> i.errorMessage]
    ELSE [connection          |-> i.connectionAlias,
          type                |-> i.ingestorType,
          state               |-> i.state,
          bufferedEvents      |-> size(i.buffer),
          totalEventsReceived |-> i.totalEventsReceived,
          lastEventAt         |-> i.lastEventAt]

\* this.buffer.clear() on an ingestor: the ring is emptied, nothing else changes
clearBuffer(i) == [i EXCEPT !.buffer = clear(@)]

-----------------------------------------------------------------------------
(* GitHub webhook helpers (./types.js of the webhook directory) *)

\* The raw request bodies sent to the ingestor.
BodyJson    == "{\"action\":\"opened\"}"
BodyNotJson == "not valid json{{{"
Bodies      == {BodyJson, BodyNotJson}

\* The raw bodies of Stripe deliveries: an event, and one without a type.
StripeBodyEvent  == "{\"id\":\"evt_1\",\"type\":\"payment_intent.succeeded\"}"
StripeBodyNoType == "{\"id\":\"evt_000\"}"

\* JSON.parse(rawBody.toString('utf-8')): the parsed value, or a SyntaxError
JSONParse(rawBody) ==
    IF rawBody = BodyJson
    THEN [ok |-> TRUE,  value |-> [action |-> "opened"]]
    ELSE IF rawBody = StripeBodyEvent
    THEN [ok |-> TRUE,  value |-> [id |-> "evt_1", type |-> "payment_intent.succeeded"]]
    ELSE IF rawBody = StripeBodyNoType
    THEN [ok |-> TRUE,  value |-> [id |-> "evt_000"]]
    ELSE [ok |-> FALSE, value |-> Undefined]

\* "sha256=" + hex(HMAC-SHA256(key, body)): the HMAC is kept symbolic, two
\* signatures being equal exactly when key and body are.
GitHubSignature(key, body) == [kind |-> "sha256", key |-> key, body |-> body]

\* The other values of the X-Hub-Signature-256 header: absent, empty, or a
\* string that is not sha256=<hex>.
SigAbsent  == [kind |-> "undefined", key |-> "", body |-> ""]
SigEmpty   == [kind |-> "empty",     key |-> "", body |-> ""]
SigGarbage == [kind |-> "garbage",   key |-> "", body |-> ""]

\* !signature on a string | undefined header value
SignatureFalsy(sig) == sig.kind \in {"undefined", "empty"}

\* extractGitHubHeaders(headers): X-GitHub-Event (default 'unknown'),
\* X-GitHub-Delivery and X-Hub-Signature-256
extractGitHubHeaders(headers) ==
    [event      |-> IF headers.event = UNDEF THEN "unknown" ELSE headers.event,
     deliveryId |-> headers.deliveryId,
     signature  |-> headers.signature]

\* verifyGitHubSignature(rawBody, signature, secret): the header equals
\* sha256=<hex HMAC-SHA256(secret, rawBody)>
verifyGitHubSignature(rawBody, signature, secret) ==
    signature = GitHubSignature(secret, rawBody)

\* crypto.createHmac('sha256', key) throws a TypeError when the key is a
\* function or a plain object; verifyGitHubSignature lets it escape.
hmacKeyRejected(secret) == secret = InheritedMember

-----------------------------------------------------------------------------
(* GitHubWebhookIngestor  (src/src/remote/ingestors/webhook/webhook-ingestor.ts) *)

\* An event filter that a caller override has filled.
eventFilterPushOnly == <<"push">>

\* this.eventFilter = [] in the constructor
eventFilterInit == <<>>

\* constructor(connectionAlias, secrets, webhookConfig, bufferSize)
GitHubWebhookIngestor(connectionAlias, secrets, webhookConfig, bufferSize) ==
    [connectionAlias     |-> connectionAlias,
     ingestorType        |-> "webhook",
     secrets             |-> secrets,
     state               |-> "stopped",
     buffer              |-> RingBuffer(bufferSize),
     totalEventsReceived |-> 0,
     lastEventAt         |-> Null,
     errorMessage        |-> UNDEF,
     webhookPath         |-> webhookConfig.path,
     signatureHeader     |-> webhookConfig.signatureHeader,
     signatureSecretName |-> webhookConfig.signatureSecret,
     eventFilter         |-> eventFilterInit]

\* The factory registered for 'webhook': null without a webhook block,
\* else new GitHubWebhookIngestor(connectionAlias, secrets, config.webhook,
\* bufferSize), the buffer size passed on as it came.
webhookFactory(connectionAlias, config, secrets, bufferSizeArg) ==
    IF ~config.webhook
    THEN [null |-> TRUE, ingestor |-> Undefined]
    ELSE [null |-> FALSE,
          ingestor |-> GitHubWebhookIngestor(connectionAlias, secrets, config.config,
                                             bufferSizeParameter(bufferSizeArg))]

\* new StripeWebhookIngestor(connectionAlias, secrets, webhookConfig, bufferSize)
StripeWebhookIngestor(connectionAlias, secrets, webhookConfig, bufferSize) ==
    [connectionAlias     |-> connectionAlias,
     ingestorType        |-> "webhook",
     secrets             |-> secrets,
     state               |-> "stopped",
     buffer              |-> RingBuffer(bufferSize),
     totalEventsReceived |-> 0,
     lastEventAt         |-> Null,
     errorMessage        |-> UNDEF,
     webhookPath         |-> webhookConfig.path,
     signatureHeader     |-> webhookConfig.signatureHeader,
     signatureSecretName |-> webhookConfig.signatureSecret]

\* The factory registered for 'webhook:stripe': null without a webhook
\* block, else new StripeWebhookIngestor(connectionAlias, secrets,
\* config.webhook, bufferSize).
stripeWebhookFactory(connectionAlias, config, secrets, bufferSizeArg) ==
    IF ~config.webhook
    THEN [null |-> TRUE, ingestor |-> Undefined]
    ELSE [null |-> FALSE,
          ingestor |-> StripeWebhookIngestor(connectionAlias, secrets, config.config,
                                             bufferSizeParameter(bufferSizeArg))]

\* export type IngestorState
IngestorStates == {"starting", "connected", "reconnecting", "stopped", "error"}

\* A start() that announces the start and never completes it.
startLeavesStarting(i) == [i EXCEPT !.state = "starting"]

\* A stop() that only stops an ingestor that is connected.
stopOnlyConnected(i) ==
    IF i.state = "connected" THEN [i EXCEPT !.state = "stopped"] ELSE i

\* start(): state = 'connected'
start(i) == [i EXCEPT !.state = "connected"]

\* stop(): state = 'stopped'
stop(i) == [i EXCEPT !.state = "stopped"]

\* A guard that verifies as soon as one of the two fields is configured.
verificationConfiguredEither(i) ==
    Truthy(i.signatureSecretName) \/ Truthy(i.signatureHeader)

\* if (this.signatureSecretName && this.signatureHeader)
verificationConfigured(i) ==
    Truthy(i.signatureSecretName) /\ Truthy(i.signatureHeader)

\* A test that only catches a secret that is not in the map.
secretMissingStrict(secret) == secret = UNDEF

\* if (!secret)
secretMissing(secret) == ~Truthy(secret)

\* What one handleWebhook call returns and does: the ingestor afterwards, the
\* {accepted, reason} result, and whether the verification block was entered
\* (checked).
Outcome(i, accepted, reason, checked) ==
    [ing |-> i, accepted |-> accepted, reason |-> reason, checked |-> checked,
     threw |-> FALSE]

\* A handleWebhook call that an exception thrown during the verification
\* ends: nothing is returned and the ingestor is as it was.
Thrown(i) ==
    [ing |-> i, accepted |-> FALSE, reason |-> UNDEF, checked |-> TRUE,
     threw |-> TRUE]

\* A handleWebhook that parses the body before it looks at the signature.
handleWebhookParsesFirst(i, headers, rawBody, t) ==
    LET ghHeaders  == extractGitHubHeaders(headers)
        configured == verificationConfigured(i)
        secret     == SecretLookup(i.secrets, i.signatureSecretName)
        signature  == ghHeaders.signature
        parsed     == JSONParse(rawBody)
        eventType  == ghHeaders.event
    IN  IF ~parsed.ok
        THEN Outcome(i, FALSE, "Invalid JSON body", configured)
        ELSE IF configured /\ secretMissing(secret)
        THEN Outcome(i, FALSE, "Signature secret not configured", TRUE)
        ELSE IF configured /\ SignatureFalsy(signature)
        THEN Outcome(i, FALSE, "Missing signature header", TRUE)
        ELSE IF configured /\ hmacKeyRejected(secret)
        THEN Thrown(i)
        ELSE IF configured /\ ~verifyGitHubSignature(rawBody, signature, secret)
        THEN Outcome(i, FALSE, "Signature verification failed", TRUE)
        ELSE IF Len(i.eventFilter) > 0
                /\ \A k \in 1 .. Len(i.eventFilter) : i.eventFilter[k] # eventType
        THEN Outcome(i, TRUE, "Filtered out", configured)
        ELSE Outcome(pushEvent(i, eventType,
                               [deliveryId |-> ghHeaders.deliveryId,
                                event      |-> eventType,
                                payload    |-> parsed.value], t),
                     TRUE, UNDEF, configured)

\* handleWebhook(headers, rawBody), t being the clock reading of pushEvent
handleWebhook(i, headers, rawBody, t) ==
    LET ghHeaders  == extractGitHubHeaders(headers)
        configured == verificationConfigured(i)
        secret     == SecretLookup(i.secrets, i.signatureSecretName)
        signature  == ghHeaders.signature
        parsed     == JSONParse(rawBody)
        eventType  == ghHeaders.event
    IN  IF configured /\ secretMissing(secret)
        THEN Outcome(i, FALSE, "Signature secret not configured", TRUE)
        ELSE IF configured /\ SignatureFalsy(signature)
        THEN Outcome(i, FALSE, "Missing signature header", TRUE)
        ELSE IF configured /\ hmacKeyRejected(secret)
        THEN Thrown(i)
        ELSE IF configured /\ ~verifyGitHubSignature(rawBody, signature, secret)
        THEN Outcome(i, FALSE, "Signature verification failed", TRUE)
        ELSE IF ~parsed.ok
        THEN Outcome(i, FALSE, "Invalid JSON body", configured)
        ELSE IF Len(i.eventFilter) > 0
                /\ \A k \in 1 .. Len(i.eventFilter) : i.eventFilter[k] # eventType
        THEN Outcome(i, TRUE, "Filtered out", configured)
        ELSE Outcome(pushEvent(i, eventType,
                               [deliveryId |-> ghHeaders.deliveryId,
                                event      |-> eventType,
                                payload    |-> parsed.value], t),
                     TRUE, UNDEF, configured)

-----------------------------------------------------------------------------
(* SpecIngestor: one GitHubWebhookIngestor and the calls made on it *)

SecretName   == "GITHUB_WEBHOOK_SECRET"
HeaderName   == "X-Hub-Signature-256"
SecretValue  == "secret123"

\* The webhook configurations and resolved secrets an ingestor is built with:
\* neither field; the header alone (the secret's name being the empty
\* string); the secret alone; both with the secret resolved; both with the
\* secret missing; both with the secret resolved to the empty string; both
\* with the secret missing and named like a member of Object.prototype.
IngestorSetups ==
    { [header |-> UNDEF,      secret |-> UNDEF,      secrets |-> <<>>],
      [header |-> HeaderName, secret |-> "",         secrets |-> [n \in {SecretName} |-> SecretValue]],
      [header |-> UNDEF,      secret |-> SecretName, secrets |-> [n \in {SecretName} |-> SecretValue]],
      [header |-> HeaderName, secret |-> SecretName, secrets |-> [n \in {SecretName} |-> SecretValue]],
      [header |-> HeaderName, secret |-> SecretName, secrets |-> <<>>],
      [header |-> HeaderName, secret |-> SecretName, secrets |-> [n \in {SecretName} |-> ""]],
      [header |-> HeaderName, secret |-> "constructor", secrets |-> <<>>] }

\* The signature header values a request carries.
Signatures ==
    {SigAbsent, SigEmpty, SigGarbage}
        \cup {GitHubSignature(k, b) : k \in {SecretValue, ""}, b \in Bodies}

\* The request headers: a delivery with its GitHub headers, or one without.
RequestHeaders ==
    {[event |-> "push", deliveryId |-> "d-1", signature |-> s] : s \in Signatures}
        \cup {[event |-> UNDEF, deliveryId |-> UNDEF, signature |-> s] : s \in Signatures}

\* The cursors getEvents is asked about.
Cursors == -2 .. MaxEvents

\* The record of the last call: its name and, for handleWebhook, the result,
\* whether the verification block was entered (checked) and whether the
\* request carried the HMAC of its own body under the resolved secret (genuine).
NoCall == [op |-> "new", accepted |-> FALSE, reason |-> UNDEF,
           checked |-> FALSE, genuine |-> FALSE,
           malformed |-> FALSE, threw |-> FALSE]

\* The id of the event a pushEvent call has just buffered.
Assigned(after) == toArray(after.buffer)[size(after.buffer)].id

\* The stream history after a pushEvent on the ingestor `before`: "evicted"
\* once a push has overwritten an event, "resumed" once a push has followed
\* a clear() that came after such an eviction.
StreamAfterPush(before) ==
    IF stream = "cleared" THEN "resumed"
    ELSE IF stream = "none" /\ size(before.buffer) = before.buffer.capacity THEN "evicted"
    ELSE stream

\* The stream history after a clear().
StreamAfterClear == IF stream = "evicted" THEN "cleared" ELSE stream

\* The ingestor another specification leaves untouched.
IdleIngestor ==
    GitHubWebhookIngestor("github", <<>>,
        [path |-> "github", signatureHeader |-> UNDEF, signatureSecret |-> UNDEF], 1)

\* The clock readings a call may see: time does not run backwards and moves
\* by at most one tick between two calls.
ClockReadings == {now, now + 1}

\* await ingestor.start()
Start ==
    /\ ing' = start(ing)
    /\ last' = [NoCall EXCEPT !.op = "start"]
    /\ UNCHANGED <<now, issued, stream, ringVars, mgrVars, stripeVars, mergeVars, tunnelVars, clientVars, taskVars>>

\* await ingestor.stop()
Stop ==
    /\ ing' = stop(ing)
    /\ last' = [NoCall EXCEPT !.op = "stop"]
    /\ UNCHANGED <<now, issued, stream, ringVars, mgrVars, stripeVars, mergeVars, tunnelVars, clientVars, taskVars>>

\* A subclass calls this.pushEvent(eventType, data).
PushEvent(eventType, data) ==
    /\ ing.totalEventsReceived < MaxEvents
    /\ \E t \in ClockReadings :
          /\ ing' = pushEvent(ing, eventType, data, t)
          /\ now' = t
    /\ issued' = Append(issued, Assigned(ing'))
    /\ stream' = StreamAfterPush(ing)
    /\ last' = [NoCall EXCEPT !.op = "pushEvent"]
    /\ UNCHANGED <<ringVars, mgrVars, stripeVars, mergeVars, tunnelVars, clientVars, taskVars>>

\* The Express route calls ingestor.handleWebhook(headers, rawBody).
HandleWebhook(headers, rawBody) ==
    \E t \in ClockReadings :
       LET out == handleWebhook(ing, headers, rawBody, t)
           buffered == out.ing.totalEventsReceived # ing.totalEventsReceived
       IN  /\ out.ing.totalEventsReceived <= MaxEvents
           /\ (~buffered => t = now)
           /\ ing' = out.ing
           /\ now' = t
           /\ issued' = IF buffered THEN Append(issued, Assigned(out.ing)) ELSE issued
           /\ stream' = IF buffered THEN StreamAfterPush(ing) ELSE stream
           /\ last' = [op |-> "handleWebhook", accepted |-> out.accepted,
                       reason |-> out.reason, checked |-> out.checked,
                       genuine |-> headers.signature =
                                     GitHubSignature(SecretLookup(ing.secrets,
                                                                  ing.signatureSecretName),
                                                     rawBody),
                       malformed |-> rawBody = BodyNotJson,
                       threw |-> out.threw]
           /\ UNCHANGED <<ringVars, mgrVars, stripeVars, mergeVars, tunnelVars, clientVars, taskVars>>

\* this.buffer.clear()
ClearBuffer ==
    /\ ing' = clearBuffer(ing)
    /\ stream' = StreamAfterClear
    /\ last' = [NoCall EXCEPT !.op = "clear"]
    /\ UNCHANGED <<now, issued, ringVars, mgrVars, stripeVars, mergeVars, tunnelVars, clientVars, taskVars>>

-----------------------------------------------------------------------------
(* IngestorManager  (src/unnamed/part_001, manager.js) *)

MaxInstances  == 4   \* ingestor objects that exist at one time
MaxStartAlls  == 2   \* calls of startAll under way at one time
MaxDeliveries == 1   \* webhook deliveries one ingestor receives in one run

\* Aliases are strings; they are kept as sequences of characters so that the
\* registry key `${callerAlias}:${connectionAlias}` is their concatenation.
CallerA   == <<"a">>
CallerAB  == <<"a", ":", "b">>
CallerZ   == <<"z">>
ConnX     == <<"x">>
ConnBX    == <<"b", ":", "x">>
ConnN     == <<"n">>
ConnW     == <<"w">>
ConnQ     == <<"q">>
ConnD     == <<"d">>

\* config.callers, in Object.entries order: alias and enabled connections
ConfigCallers ==
    << [alias |-> CallerA,  connections |-> <<ConnBX, ConnN, ConnX, ConnD>>],
       [alias |-> CallerAB, connections |-> <<ConnX, ConnW>>] >>

\* The ingestor stanza of each connection's route: a webhook ingestor, a
\* Discord gateway (websocket) ingestor (two connections have one), a webhook
\* stanza without its webhook block, or no ingestor at all.
RouteIngestor(connectionAlias) ==
    IF connectionAlias = ConnX
    THEN [type |-> "webhook", webhook |-> TRUE, websocket |-> FALSE,
          config |-> [path |-> "github", signatureHeader |-> HeaderName,
                      signatureSecret |-> SecretName]]
    ELSE IF connectionAlias \in {ConnBX, ConnD}
    THEN [type |-> "websocket", webhook |-> FALSE, websocket |-> TRUE,
          config |-> [protocol |-> "discord"]]
    ELSE IF connectionAlias = ConnW
    THEN [type |-> "webhook", webhook |-> FALSE, websocket |-> FALSE, config |-> Undefined]
    ELSE [type |-> "none", webhook |-> FALSE, websocket |-> FALSE, config |-> Undefined]

\* resolvedRoute.secrets of a connection
RouteSecrets(connectionAlias) == [n \in {SecretName} |-> SecretValue]

\* A test that finds every connection among the caller's.
callerHasConnectionAny(callerAlias, connectionAlias) == TRUE

\* The caller's config entry, or none.
callerKnown(callerAlias) ==
    \E k \in 1 .. Len(ConfigCallers) : ConfigCallers[k].alias = callerAlias

callerConnections(callerAlias) ==
    ConfigCallers[CHOOSE k \in 1 .. Len(ConfigCallers) :
                      ConfigCallers[k].alias = callerAlias].connections

callerHasConnection(callerAlias, connectionAlias) ==
    \E k \in 1 .. Len(callerConnections(callerAlias)) :
        callerConnections(callerAlias)[k] = connectionAlias

\* const key = `${callerAlias}:${connectionAlias}`
Key(callerAlias, connectionAlias) == callerAlias \o <<":">> \o connectionAlias

\* Map.prototype.has / get / set / delete on the insertion-ordered registry,
\* a sequence of [key, id] entries; id is the ingestor object's identity.
mapHas(m, key) == \E k \in 1 .. Len(m) : m[k].key = key

mapGet(m, key) == m[CHOOSE k \in 1 .. Len(m) : m[k].key = key].id

mapSet(m, key, id) ==
    IF mapHas(m, key)
    THEN [k \in 1 .. Len(m) |-> IF m[k].key = key THEN [key |-> key, id |-> id] ELSE m[k]]
    ELSE Append(m, [key |-> key, id |-> id])

mapDelete(m, key) == SelectSeq(m, LAMBDA e : e.key # key)

\* new DiscordGatewayIngestor(connectionAlias, secrets, config.websocket): a
\* BaseIngestor of type websocket; no buffer size is given, so the
\* constructor's default applies
DiscordGatewayIngestor(connectionAlias, secrets, websocketConfig) ==
    BaseIngestor(connectionAlias, "websocket", secrets, bufferSizeParameter(Omitted))

\* The start() of the ingestor fails: it is a gateway ingestor of one of the
\* connections in `fails`.
startFails(i, fails) == i.ingestorType = "websocket" /\ i.connectionAlias \in fails

\* ingestor.start(): a webhook ingestor is connected at once; a gateway
\* ingestor connects, or fails and reports state error with its message.
\* `fails` is the set of connections whose gateway start() fails.
startIngestor(i, fails) ==
    IF startFails(i, fails)
    THEN [i EXCEPT !.state = "error", !.errorMessage = "Gateway connection failed"]
    ELSE [start(i) EXCEPT !.errorMessage = UNDEF]

\* ingestor.stop(): the state becomes stopped, unless a gateway ingestor's
\* stop() throws before it gets there. `throws` is the set of connections
\* whose gateway stop() throws.
stopIngestor(i, throws) ==
    IF i.ingestorType = "websocket" /\ i.connectionAlias \in throws THEN i ELSE stop(i)

\* A call that returns null.
NoIngestor == [null |-> TRUE, ingestor |-> Undefined]

\* createIngestor(connectionAlias, config, secrets): for type websocket, null
\* without a websocket block, a DiscordGatewayIngestor built from three
\* arguments (no buffer size) for the discord protocol, null for any other
\* protocol; null for the types webhook and poll, which are not implemented,
\* and for any other type.
createIngestor(connectionAlias, config, secrets) ==
    IF config.type = "websocket"
    THEN IF ~config.websocket THEN NoIngestor
         ELSE IF config.config.protocol = "discord"
         THEN [null |-> FALSE,
               ingestor |-> DiscordGatewayIngestor(connectionAlias, secrets,
                                                   config.config)]
         ELSE NoIngestor
    ELSE NoIngestor

\* config.webhook?.protocol of a webhook stanza: undefined without a webhook
\* block or without the field.
webhookProtocol(config) ==
    IF config.webhook /\ "protocol" \in DOMAIN config.config
    THEN config.config.protocol
    ELSE UNDEF

\* createIngestor of the factory registry, which the targeted lifecycle
\* calls create from: the factory is looked up by the stanza's type and
\* protocol. For type webhook, protocol stripe has the Stripe ingestor's
\* factory and a stanza without protocol goes to the factory
\* webhook-ingestor.ts registers; type websocket has the gateway ingestor
\* for discord; any other combination yields null. No buffer size is handed
\* on.
registryCreateIngestor(connectionAlias, config, secrets) ==
    IF config.type = "webhook"
    THEN IF webhookProtocol(config) = "stripe"
         THEN stripeWebhookFactory(connectionAlias, config, secrets, Omitted)
         ELSE IF webhookProtocol(config) = UNDEF
         THEN webhookFactory(connectionAlias, config, secrets, Omitted)
         ELSE NoIngestor
    ELSE createIngestor(connectionAlias, config, secrets)

\* A startAll that has lost its "already registered" test.
startAllSkipsNever(m, key) == FALSE

\* if (this.ingestors.has(key)) continue;
startAllSkips(m, key) == mapHas(m, key)

\* The manager's heap: the registry and the ingestor objects, each object
\* remembering the caller it was created for. Objects live in numbered slots;
\* an object's slot is its identity for as long as it exists.
Heap(m, objs) == [ingestors |-> m, instances |-> objs]

\* A slot that holds no object, and the heap before any object is created.
NoInstance == [free |-> TRUE]
EmptyPool == [id \in 1 .. MaxInstances |-> NoInstance]

\* The slot a new object is put in: the lowest free one (0 when none is free).
freeSlot(objs) ==
    IF \A id \in 1 .. Len(objs) : objs[id] # NoInstance THEN 0
    ELSE CHOOSE id \in 1 .. Len(objs) :
             /\ objs[id] = NoInstance
             /\ \A j \in 1 .. id - 1 : objs[j] # NoInstance

\* Garbage collection: an object the registry no longer refers to is
\* unreachable, and its slot is free again.
collect(h) ==
    Heap(h.ingestors,
         [id \in 1 .. Len(h.instances) |->
             IF \E k \in 1 .. Len(h.ingestors) : h.ingestors[k].id = id
             THEN h.instances[id]
             ELSE NoInstance])

\* An ingestor object on the heap: the caller it was created for, the object,
\* and whether stop() has ever been invoked on it.
Instance(callerAlias, ingestor) ==
    [caller |-> callerAlias, ing |-> ingestor, stopCalled |-> FALSE]

\* Create, register and start one ingestor (startAll's loop body after its
\* tests); a start() that throws is caught and logged.
registerAndStart(h, callerAlias, connectionAlias, ingestor, fails) ==
    LET id == freeSlot(h.instances)
    IN  Heap(mapSet(h.ingestors, Key(callerAlias, connectionAlias), id),
             IF id = 0 THEN h.instances
             ELSE [h.instances EXCEPT
                      ![id] = Instance(callerAlias, startIngestor(ingestor, fails))])

\* One iteration of startAll's inner loop, for connections[i] of a caller.
startAllVisit(h, callerAlias, connectionAlias, fails) ==
    LET rawIngestor == RouteIngestor(connectionAlias)
        key         == Key(callerAlias, connectionAlias)
        made        == createIngestor(connectionAlias, rawIngestor,
                                      RouteSecrets(connectionAlias))
    IN  IF rawIngestor.type = "none" THEN h
        ELSE IF startAllSkips(h.ingestors, key) THEN h
        ELSE IF made.null THEN h
        ELSE registerAndStart(h, callerAlias, connectionAlias, made.ingestor, fails)

\* The iterations of startAll's two loops, in order: one per caller and
\* connection of the configuration.
RECURSIVE startAllIterations(_)
startAllIterations(callers) ==
    IF callers = <<>> THEN <<>>
    ELSE [k \in 1 .. Len(Head(callers).connections) |->
              [caller |-> Head(callers).alias,
               connection |-> Head(callers).connections[k]]]
             \o startAllIterations(Tail(callers))

\* A step of startAll that has come to an `await ingestor.start()`
\* (`rejected` tells whether the promise awaited is a rejected one) or to the
\* end of the loop; `logged` tells whether the step wrote to console.error.
Awaiting(h, rest, rejected) ==
    [heap |-> h, rest |-> rest, awaiting |-> TRUE, rejected |-> rejected, logged |-> FALSE]

LoopDone(h) ==
    [heap |-> h, rest |-> <<>>, awaiting |-> FALSE, rejected |-> FALSE, logged |-> FALSE]

\* The ingestor an iteration of startAll creates, registers and starts.
startAllCreates(it) ==
    createIngestor(it.connection, RouteIngestor(it.connection),
                   RouteSecrets(it.connection)).ingestor

RECURSIVE startAllUntilAwaitAborting(_, _, _, _)
\* A loop that a failed start() ends: once a registered ingestor is in state
\* error, no further connection is visited and the call returns.
startAllUntilAwaitAborting(h, iterations, fails, throws) ==
    IF iterations = <<>> THEN LoopDone(h)
    ELSE IF \E k \in 1 .. Len(h.ingestors) :
                h.instances[h.ingestors[k].id].ing.state = "error"
    THEN LoopDone(h)
    ELSE LET it   == Head(iterations)
             next == startAllVisit(h, it.caller, it.connection, fails)
         IN  IF next = h
             THEN startAllUntilAwaitAborting(h, Tail(iterations), fails, throws)
             ELSE IF startFails(startAllCreates(it), throws)
             THEN [startAllUntilAwaitAborting(next, Tail(iterations), fails, throws)
                      EXCEPT !.logged = TRUE]
             ELSE Awaiting(next, Tail(iterations), startFails(startAllCreates(it), fails))

\* startAll from the given iteration on, up to its next
\* `await ingestor.start()` or to its end. Iterations that `continue` or get
\* no ingestor run on. One that registers an ingestor calls its start():
\* when start() throws before it returns a promise, the catch block logs
\* the error at once and the loop runs on in the same step; when it returns
\* a promise, resolved or rejected, the call waits. `fails` is the set of
\* gateway connections whose start() fails, and `throws` those of them
\* whose start() fails by throwing rather than by a rejected promise.
RECURSIVE startAllUntilAwait(_, _, _, _)
startAllUntilAwait(h, iterations, fails, throws) ==
    IF iterations = <<>> THEN LoopDone(h)
    ELSE LET it   == Head(iterations)
             next == startAllVisit(h, it.caller, it.connection, fails)
         IN  IF next = h
             THEN startAllUntilAwait(h, Tail(iterations), fails, throws)
             ELSE IF startFails(startAllCreates(it), throws)
             THEN [startAllUntilAwait(next, Tail(iterations), fails, throws)
                      EXCEPT !.logged = TRUE]
             ELSE Awaiting(next, Tail(iterations), startFails(startAllCreates(it), fails))

\* A stopAll that gives up at the first stop() that throws: no later
\* ingestor has stop() invoked.
stopAllInvokeAbortsOnThrow(h, throws) ==
    LET thrower == {k \in 1 .. Len(h.ingestors) :
                       /\ h.instances[h.ingestors[k].id].ing.ingestorType = "websocket"
                       /\ h.instances[h.ingestors[k].id].ing.connectionAlias \in throws}
        first == IF thrower = {} THEN Len(h.ingestors) + 1
                 ELSE CHOOSE k \in thrower : \A j \in thrower : k <= j
    IN  Heap(h.ingestors,
             [id \in 1 .. Len(h.instances) |->
                 IF \E k \in 1 .. Len(h.ingestors) : k <= first /\ h.ingestors[k].id = id
                 THEN [h.instances[id] EXCEPT !.ing = stopIngestor(@, throws),
                                              !.stopCalled = TRUE]
                 ELSE h.instances[id]])

\* stopAll up to `await Promise.all(stops)`: stop() is called on every
\* ingestor that is in the registry now, each throw caught and logged; the
\* registry is not touched. `throws` tells which of the gateway ingestors'
\* stop() throws.
stopAllInvoke(h, throws) ==
    Heap(h.ingestors,
         [id \in 1 .. Len(h.instances) |->
             IF \E k \in 1 .. Len(h.ingestors) : h.ingestors[k].id = id
             THEN [h.instances[id] EXCEPT !.ing = stopIngestor(@, throws),
                                          !.stopCalled = TRUE]
             ELSE h.instances[id]])

\* stopAll after the await: this.ingestors.clear()
stopAllClear(h) == Heap(<<>>, h.instances)

\* getEvents(callerAlias, connectionAlias, afterId) of the manager
managerGetEvents(h, callerAlias, connectionAlias, afterId) ==
    LET key == Key(callerAlias, connectionAlias)
    IN  IF ~mapHas(h.ingestors, key) THEN <<>>
        ELSE getEvents(h.instances[mapGet(h.ingestors, key)].ing, afterId)

\* key.startsWith(`${callerAlias}:`)
keyStartsWith(key, callerAlias) ==
    LET prefix == callerAlias \o <<":">>
    IN  Len(key) >= Len(prefix) /\ SubSeq(key, 1, Len(prefix)) = prefix

\* The registry entries whose key starts with the caller's prefix, in
\* insertion order.
entriesOf(h, callerAlias) ==
    SelectSeq(h.ingestors, LAMBDA e : keyStartsWith(e.key, callerAlias))

\* A comparison that puts an event before another only when it is older.
receivedAtPrecedesStrict(a, b) == a.receivedAt.iso < b.receivedAt.iso

\* a.receivedAt.localeCompare(b.receivedAt) <= 0 : ISO strings of the same
\* width order as their instants do
receivedAtPrecedes(a, b) == a.receivedAt.iso <= b.receivedAt.iso

RECURSIVE sortByReceivedAt(_)
\* events.sort((a, b) => a.receivedAt.localeCompare(b.receivedAt)), which
\* keeps events of equal receivedAt in their order
sortByReceivedAt(events) ==
    IF events = <<>> THEN <<>>
    ELSE LET rest   == sortByReceivedAt(Tail(events))
             before == {k \in 1 .. Len(rest) :
                           ~receivedAtPrecedes(Head(events), rest[k])}
             n      == IF before = {} THEN 0
                       ELSE CHOOSE k \in before : \A j \in before : j <= k
         IN  SubSeq(rest, 1, n) \o <<Head(events)>> \o SubSeq(rest, n + 1, Len(rest))

RECURSIVE collectEvents(_, _, _)
\* events.push(...ingestor.getEvents(afterId)) for each entry of the caller
collectEvents(h, entries, afterId) ==
    IF entries = <<>> THEN <<>>
    ELSE getEvents(h.instances[Head(entries).id].ing, afterId)
             \o collectEvents(h, Tail(entries), afterId)

\* getAllEvents(callerAlias, afterId)
getAllEvents(h, callerAlias, afterId) ==
    sortByReceivedAt(collectEvents(h, entriesOf(h, callerAlias), afterId))

\* getStatuses(callerAlias)
getStatuses(h, callerAlias) ==
    [k \in 1 .. Len(entriesOf(h, callerAlias)) |->
        getStatus(h.instances[entriesOf(h, callerAlias)[k].id].ing)]

\* A getWebhookIngestors that does not look at the path.
getWebhookIngestorsAnyPath(h, path) ==
    LET listening == SelectSeq(h.ingestors,
                         LAMBDA e : "webhookPath" \in DOMAIN h.instances[e.id].ing)
    IN  [k \in 1 .. Len(listening) |-> listening[k].id]

\* getWebhookIngestors(path): the registered webhook ingestors listening on
\* the path, as object identities in registry order
getWebhookIngestors(h, path) ==
    LET listening == SelectSeq(h.ingestors,
                         LAMBDA e : /\ "webhookPath" \in DOMAIN h.instances[e.id].ing
                                    /\ h.instances[e.id].ing.webhookPath = path)
    IN  [k \in 1 .. Len(listening) |-> listening[k].id]

\* has(callerAlias, connectionAlias)
has(h, callerAlias, connectionAlias) == mapHas(h.ingestors, Key(callerAlias, connectionAlias))

\* What a targeted lifecycle call returns, with the heap it leaves.
Reply(h, connectionAlias, success, state, error) ==
    [heap |-> h, connection |-> connectionAlias, success |-> success,
     state |-> state, error |-> error]

\* A startOne without its "already running" answer: it makes a new ingestor
\* whether or not one is registered.
startOneAlwaysCreates(h, callerAlias, connectionAlias) ==
    LET made == registryCreateIngestor(connectionAlias,
                                       RouteIngestor(connectionAlias),
                                       RouteSecrets(connectionAlias))
    IN  IF ~callerKnown(callerAlias)
        THEN Reply(h, connectionAlias, FALSE, UNDEF, "Unknown caller")
        ELSE IF ~callerHasConnection(callerAlias, connectionAlias)
        THEN Reply(h, connectionAlias, FALSE, UNDEF, "Caller does not have connection")
        ELSE IF RouteIngestor(connectionAlias).type = "none"
        THEN Reply(h, connectionAlias, FALSE, UNDEF, "does not have an ingestor")
        ELSE IF made.null
        THEN Reply(h, connectionAlias, FALSE, UNDEF, "Failed to create ingestor")
        ELSE Reply(registerAndStart(h, callerAlias, connectionAlias, made.ingestor, {}),
                   connectionAlias, TRUE, startIngestor(made.ingestor, {}).state, UNDEF)

\* startOne(callerAlias, connectionAlias)
startOne(h, callerAlias, connectionAlias) ==
    LET key  == Key(callerAlias, connectionAlias)
        made == registryCreateIngestor(connectionAlias,
                                       RouteIngestor(connectionAlias),
                                       RouteSecrets(connectionAlias))
    IN  IF ~callerKnown(callerAlias)
        THEN Reply(h, connectionAlias, FALSE, UNDEF, "Unknown caller")
        ELSE IF ~callerHasConnection(callerAlias, connectionAlias)
        THEN Reply(h, connectionAlias, FALSE, UNDEF, "Caller does not have connection")
        ELSE IF RouteIngestor(connectionAlias).type = "none"
        THEN Reply(h, connectionAlias, FALSE, UNDEF, "does not have an ingestor")
        ELSE IF mapHas(h.ingestors, key)
        THEN Reply(h, connectionAlias, TRUE,
                   h.instances[mapGet(h.ingestors, key)].ing.state, UNDEF)
        ELSE IF made.null
        THEN Reply(h, connectionAlias, FALSE, UNDEF, "Failed to create ingestor")
        ELSE Reply(registerAndStart(h, callerAlias, connectionAlias, made.ingestor, {}),
                   connectionAlias, TRUE, startIngestor(made.ingestor, {}).state, UNDEF)

\* A stopOne that stops the ingestor and leaves it in the registry.
stopOneKeepsRegistered(h, callerAlias, connectionAlias) ==
    LET key == Key(callerAlias, connectionAlias)
    IN  IF ~mapHas(h.ingestors, key)
        THEN Reply(h, connectionAlias, FALSE, UNDEF, "No ingestor running")
        ELSE LET id == mapGet(h.ingestors, key)
             IN  Reply(Heap(h.ingestors,
                            [h.instances EXCEPT ![id].ing = stopIngestor(@, {}),
                                                ![id].stopCalled = TRUE]),
                       connectionAlias, TRUE, "stopped", UNDEF)

\* stopOne(callerAlias, connectionAlias)
stopOne(h, callerAlias, connectionAlias) ==
    LET key == Key(callerAlias, connectionAlias)
    IN  IF ~mapHas(h.ingestors, key)
        THEN Reply(h, connectionAlias, FALSE, UNDEF, "No ingestor running")
        ELSE LET id == mapGet(h.ingestors, key)
             IN  Reply(Heap(mapDelete(h.ingestors, key),
                            [h.instances EXCEPT ![id].ing = stopIngestor(@, {}),
                                                ![id].stopCalled = TRUE]),
                       connectionAlias, TRUE, "stopped", UNDEF)

\* A restartOne that forgets to stop: it is startOne.
restartOneStartsOnly(h, callerAlias, connectionAlias) ==
    startOne(h, callerAlias, connectionAlias)

\* restartOne(callerAlias, connectionAlias): stop it if it runs, then startOne
restartOne(h, callerAlias, connectionAlias) ==
    IF has(h, callerAlias, connectionAlias)
    THEN startOne(stopOne(h, callerAlias, connectionAlias).heap, callerAlias, connectionAlias)
    ELSE startOne(h, callerAlias, connectionAlias)

-----------------------------------------------------------------------------
(* SpecManager: the registry under lifecycle calls; startAll and stopAll
   take turns with the other calls at their await points *)

\* The callers and connections the targeted calls are made with: configured
\* ones, a caller that is not configured, a connection no caller has.
CallArgsCallers     == {CallerA, CallerAB, CallerZ}
CallArgsConnections == {ConnX, ConnBX, ConnN, ConnW, ConnQ}

\* The (caller, connection) pairs of the calls: every connection of the
\* configuration with each configured caller, an unknown caller, and a
\* connection nobody has.
CallPairs ==
    ({CallerA, CallerAB} \X {ConnX, ConnBX, ConnN, ConnW})
        \cup {<<CallerZ, ConnX>>, <<CallerA, ConnQ>>}

\* The pairs the targeted calls are made with while the registry evolves:
\* the three pairs that have an ingestor to start (two of them share a key)
\* and a connection without ingestor stanza.
LifecyclePairs ==
    {<<CallerA, ConnBX>>, <<CallerA, ConnX>>, <<CallerAB, ConnX>>, <<CallerA, ConnN>>}

\* The paths webhooks are posted to.
WebhookPaths == {"github", "nonexistent"}

NoManagerCall == [op |-> "new", caller |-> <<>>, connection |-> <<>>,
                  success |-> FALSE, state |-> UNDEF, error |-> UNDEF]

\* The heap a call starts from: the objects stopped and dropped by the call
\* before it are gone.
heap == collect(Heap(ingestors, instances))

\* The heap a call leaves becomes the manager's state (a call that finds no
\* free slot for a new object is not made).
InstallAt(h, t) ==
    /\ \A k \in 1 .. Len(h.ingestors) : h.ingestors[k].id # 0
    /\ ingestors' = h.ingestors
    /\ instances' = h.instances
    /\ now' = t
    /\ UNCHANGED <<ringVars, ing, issued, stream, last, stripeVars, mergeVars, tunnelVars, clientVars, taskVars>>

Install(h) == InstallAt(h, now)

Returned(op, callerAlias, r) ==
    [op |-> op, caller |-> callerAlias, connection |-> r.connection,
     success |-> r.success, state |-> r.state, error |-> r.error]

\* What a step of startAll wrote to console.error: "Failed to start" when
\* the step resumed from a start() whose promise was rejected, or when a
\* start() called in the step threw; nothing otherwise.
startAllLog(rejected, r) ==
    IF rejected \/ r.logged THEN "Failed to start" ELSE UNDEF

\* The gateway connections whose start() fails during one step of startAll
\* (none, the first one visited, or both), and those whose stop() throws
\* during one stopAll (none, or the first one).
NoFailures    == {{}}
StartFailures == {{}, {ConnBX}, {ConnBX, ConnD}}
StopFailures  == {{}, {ConnBX}}

\* The manager's state after a step of one of its calls.
Step(h) ==
    /\ \A k \in 1 .. Len(h.ingestors) : h.ingestors[k].id # 0
    /\ ingestors' = h.ingestors
    /\ instances' = h.instances
    /\ UNCHANGED <<ringVars, ingVars, stripeVars, mergeVars, tunnelVars, clientVars>>

\* What a step of startAll leaves for its caller: whether the call has
\* resolved, and what the step logged.
startAllStep(rejected, r) ==
    [NoManagerCall EXCEPT
        !.op      = IF r.awaiting THEN "startAll awaits" ELSE "startAll",
        !.success = ~r.awaiting,
        !.error   = startAllLog(rejected, r)]

\* A call of startAll that waits at an `await ingestor.start()`: the
\* iterations it has left, and whether the promise it awaits is rejected.
PendingStartAll(r) == [rest |-> r.rest, rejected |-> r.rejected]

\* The sequence without its k-th element.
RemoveAt(seq, k) == SubSeq(seq, 1, k - 1) \o SubSeq(seq, k + 1, Len(seq))

\* manager.startAll() is called and runs to its first
\* `await ingestor.start()`, or to its end when it has nothing to wait for.
\* No more than `calls` calls of startAll are under way at a time.
StartAllBegin(failures, calls) ==
    /\ Len(tasks.startAll) < calls
    /\ \E fails \in failures : \E throws \in SUBSET fails :
           LET r == startAllUntilAwait(heap, startAllIterations(ConfigCallers),
                                       fails, throws)
           IN  /\ Step(r.heap)
               /\ tasks' = [tasks EXCEPT
                               !.startAll = IF r.awaiting
                                            THEN Append(@, PendingStartAll(r)) ELSE @]
               /\ mlast' = startAllStep(FALSE, r)

\* A startAll goes on after its `await ingestor.start()`: when the promise
\* was rejected the catch block logs the error; then the loop runs to its
\* next await, or to its end, where the call resolves.
StartAllResume(failures) ==
    \E k \in 1 .. Len(tasks.startAll) :
        \E fails \in failures : \E throws \in SUBSET fails :
           LET call == tasks.startAll[k]
               r    == startAllUntilAwait(heap, call.rest, fails, throws)
           IN  /\ Step(r.heap)
               /\ tasks' = [tasks EXCEPT
                               !.startAll = IF r.awaiting
                                            THEN [@ EXCEPT ![k] = PendingStartAll(r)]
                                            ELSE RemoveAt(@, k)]
               /\ mlast' = startAllStep(call.rejected, r)

\* manager.stopAll() is called and runs to `await Promise.all(stops)`.
StopAllBegin(failures) ==
    /\ ~tasks.stopping
    /\ \E throws \in failures : Step(stopAllInvoke(heap, throws))
    /\ tasks' = [tasks EXCEPT !.stopping = TRUE]
    /\ mlast' = [NoManagerCall EXCEPT !.op = "stopAll awaits"]

\* stopAll goes on after the await, clears the registry and resolves.
StopAllResume ==
    /\ tasks.stopping
    /\ Step(stopAllClear(Heap(ingestors, instances)))
    /\ tasks' = [tasks EXCEPT !.stopping = FALSE]
    /\ mlast' = [NoManagerCall EXCEPT !.op = "stopAll"]

\* await manager.startOne(callerAlias, connectionAlias)
StartOne(callerAlias, connectionAlias) ==
    LET r == startOne(heap, callerAlias, connectionAlias)
    IN  /\ Install(r.heap)
        /\ mlast' = Returned("startOne", callerAlias, r)

\* await manager.stopOne(callerAlias, connectionAlias)
StopOne(callerAlias, connectionAlias) ==
    LET r == stopOne(heap, callerAlias, connectionAlias)
    IN  /\ Install(r.heap)
        /\ mlast' = Returned("stopOne", callerAlias, r)

\* await manager.restartOne(callerAlias, connectionAlias)
RestartOne(callerAlias, connectionAlias) ==
    LET r == restartOne(heap, callerAlias, connectionAlias)
    IN  /\ Install(r.heap)
        /\ mlast' = Returned("restartOne", callerAlias, r)

\* The signed delivery the webhook route hands to the ingestors.
DeliveryHeaders ==
    [event |-> "push", deliveryId |-> "d-1",
     signature |-> GitHubSignature(SecretValue, BodyJson)]

\* POST /webhooks/:path : handleWebhook on every ingestor that
\* getWebhookIngestors(path) returns
deliverWebhook(h, path, t) ==
    LET targets == getWebhookIngestors(h, path)
    IN  Heap(h.ingestors,
             [id \in 1 .. Len(h.instances) |->
                 IF \E k \in 1 .. Len(targets) : targets[k] = id
                 THEN [h.instances[id] EXCEPT
                          !.ing = handleWebhook(@, DeliveryHeaders, BodyJson, t).ing]
                 ELSE h.instances[id]])

DeliverWebhook(path) ==
    LET targets == getWebhookIngestors(heap, path)
    IN  /\ targets # <<>>
        /\ \A k \in 1 .. Len(targets) :
               instances[targets[k]].ing.totalEventsReceived < MaxDeliveries
        /\ Install(deliverWebhook(heap, path, now))
        /\ mlast' = [NoManagerCall EXCEPT !.op = "deliverWebhook"]

-----------------------------------------------------------------------------
(* SpecPoll: ingestors of several callers receive events while the manager
   is polled *)

MaxPollEvents == 2   \* events one ingestor receives in one run
MaxPollClock  == 1   \* the clock readings of a run are 0 .. MaxPollClock

\* The pairs started, the callers polling and the cursors they poll with.
PollPairs   == {<<CallerA, ConnBX>>, <<CallerA, ConnX>>, <<CallerAB, ConnX>>}
PollCallers == {CallerA, CallerAB, CallerZ}
PollCursors == {-1, 0, 1}

\* new Date() at an event's arrival: the last reading, or a later one.
PollClockReadings == {t \in {now, now + 1} : t <= MaxPollClock}

\* A gateway dispatch reaches the ingestor in slot id: pushEvent(type, data).
gatewayDispatch(h, id, t) ==
    Heap(h.ingestors,
         [h.instances EXCEPT
             ![id].ing = pushEvent(@, "MESSAGE_CREATE", [payload |-> "m"], t)])

GatewayDispatch ==
    \E k \in 1 .. Len(ingestors) :
        LET id == ingestors[k].id
        IN  /\ instances[id].ing.ingestorType = "websocket"
            /\ instances[id].ing.state = "connected"
            /\ instances[id].ing.totalEventsReceived < MaxPollEvents
            /\ \E t \in PollClockReadings : InstallAt(gatewayDispatch(heap, id, t), t)
            /\ mlast' = [NoManagerCall EXCEPT !.op = "dispatch"]

\* POST /webhooks/:path while the clock runs
PollDeliver(path) ==
    LET targets == getWebhookIngestors(heap, path)
    IN  /\ targets # <<>>
        /\ \A k \in 1 .. Len(targets) :
               instances[targets[k]].ing.totalEventsReceived < MaxPollEvents
        /\ \E t \in PollClockReadings : InstallAt(deliverWebhook(heap, path, t), t)
        /\ mlast' = [NoManagerCall EXCEPT !.op = "deliverWebhook"]

\* manager.getAllEvents(callerAlias, afterId)
GetAllEvents(callerAlias, afterId) ==
    /\ Install(heap)
    /\ mlast' = [op |-> "getAllEvents", caller |-> callerAlias, afterId |-> afterId,
                 events |-> getAllEvents(heap, callerAlias, afterId)]

-----------------------------------------------------------------------------
(* A client that polls with a cursor *)

\* A client that has not polled yet: its cursor is -1.
NewClient(callerAlias) ==
    [polling |-> TRUE, caller |-> callerAlias, cursor |-> -1,
     received |-> <<>>]

\* The highest id among the events.
RECURSIVE highestId(_)
highestId(events) ==
    IF Len(events) = 1 THEN events[1].id
    ELSE LET rest == highestId(Tail(events))
         IN  IF events[1].id > rest THEN events[1].id ELSE rest

\* The client after an answer: the events are appended to what it has
\* received and the cursor advances to the highest id returned.
advance(c, events) ==
    [c EXCEPT !.received = c.received \o events,
              !.cursor = IF events = <<>> THEN c.cursor ELSE highestId(events)]

\* A client of one ingestor that has not polled yet. `total` is the
\* ingestor's event count at the client's last poll; `overrun` tells that
\* more events than the buffer holds arrived between two of its polls, and
\* `cleared` that the buffer was cleared.
NewFollower ==
    [polling |-> TRUE, cursor |-> -1, received |-> <<>>,
     total |-> 0, overrun |-> FALSE, cleared |-> FALSE]

\* The client calls ingestor.getEvents(cursor) and advances.
ClientGetEvents ==
    /\ client.polling
    /\ LET events == getEvents(ing, client.cursor)
       IN  client' = [advance(client, events) EXCEPT
                         !.total = ing.totalEventsReceived,
                         !.overrun = client.overrun
                                        \/ ing.totalEventsReceived - client.total
                                               > ing.buffer.capacity]
    /\ last' = [NoCall EXCEPT !.op = "clientGetEvents"]
    /\ UNCHANGED <<ing, now, issued, stream, ringVars, mgrVars, stripeVars, mergeVars,
                   tunnelVars, taskVars>>

\* this.buffer.clear() on the ingestor the client follows
ClearFollowed ==
    /\ client.polling
    /\ ing' = clearBuffer(ing)
    /\ stream' = StreamAfterClear
    /\ last' = [NoCall EXCEPT !.op = "clear"]
    /\ client' = [client EXCEPT !.cleared = TRUE]
    /\ UNCHANGED <<now, issued, ringVars, mgrVars, stripeVars, mergeVars, tunnelVars, taskVars>>

\* The pairs started for the polling caller.
ClientPairs == {<<CallerA, ConnBX>>, <<CallerA, ConnX>>}

\* The client calls manager.getAllEvents(caller, cursor) and advances.
ClientPollAll ==
    /\ client.polling
    /\ LET events == getAllEvents(heap, client.caller, client.cursor)
       IN  /\ client' = advance(client, events)
           /\ mlast' = [op |-> "clientPoll", caller |-> client.caller,
                        afterId |-> client.cursor, events |-> events]
    /\ ingestors' = heap.ingestors
    /\ instances' = heap.instances
    /\ UNCHANGED <<ringVars, ingVars, stripeVars, mergeVars, tunnelVars, taskVars>>

-----------------------------------------------------------------------------
(* Stripe signature verification  (src/unnamed/part_004, stripe-types) *)

MaxStripeTicks == 2         \* clock ticks of ClockStepMs during one run

\* export const STRIPE_SIGNATURE_HEADER = 'stripe-signature'
STRIPE_SIGNATURE_HEADER == "stripe-signature"

\* export const DEFAULT_TIMESTAMP_TOLERANCE = 300
DEFAULT_TIMESTAMP_TOLERANCE == 300

\* Math.abs
Abs(n) == IF n < 0 THEN -n ELSE n

\* Math.floor(Date.now() / 1000) for a non-negative clock in milliseconds
nowSeconds(ms) == ms \div 1000

\* The text of a header is kept as the comma-separated parts it splits into;
\* each part has the text before its first '=' (key) and, when there is an
\* '=', the text after it (value). Texts are tokens:
\*   Decimal(n)      the decimal digits of the integer n
\*   Word(w)         letters that are neither a number nor hex digits
\*   Blank           white space only
\*   Padded(x)       the text x with white space around it
\*   Hex(m, tail)    the 64 lower-case hex digits of the MAC m, followed by tail
\*   HalfHex(m)      the first 32 hex digits of the MAC m
Empty == [kind |-> "empty"]
Decimal(n) == [kind |-> "decimal", n |-> n]
Word(w) == [kind |-> "word", w |-> w]
Blank == [kind |-> "blank"]
Padded(x) == [kind |-> "padded", inner |-> x]
Hex(m, tail) == [kind |-> "hex", mac |-> m, tail |-> tail]
HalfHex(m) == [kind |-> "halfhex", mac |-> m]

\* A part "key=value" and a part without '='.
Part(key, value) == [key |-> key, eq |-> TRUE, value |-> value]
Bare(key) == [key |-> key, eq |-> FALSE, value |-> Empty]

\* !text : the empty string is falsy, undefined (no '=' in the part) too
Falsy(text) == text.kind = "empty"

\* String.prototype.trim
trim(text) ==
    IF text.kind = "padded" THEN text.inner
    ELSE IF text.kind = "blank" THEN Empty
    ELSE text

\* Number(text): NaN for anything that is not a numeric literal; the empty
\* string converts to 0.
Number(text) ==
    IF text.kind = "decimal" THEN [nan |-> FALSE, value |-> text.n]
    ELSE IF text.kind = "empty" THEN [nan |-> FALSE, value |-> 0]
    ELSE [nan |-> TRUE, value |-> 0]

\* The state of parseStripeSignatureHeader's loop.
ParseState(timestamp, signatures) == [timestamp |-> timestamp, signatures |-> signatures]

\* for (const part of parts) { ... } from part k on; Null as soon as a 't'
\* value is not a number.
RECURSIVE parseParts(_, _, _)
parseParts(parts, k, st) ==
    IF k > Len(parts) THEN st
    ELSE LET part == parts[k]
             key == part.key
             value == IF part.eq THEN part.value ELSE Empty
         IN  IF Falsy(key) \/ Falsy(value) THEN parseParts(parts, k + 1, st)
             ELSE IF trim(key) = Word("t")
             THEN IF Number(trim(value)).nan THEN Null
                  ELSE parseParts(parts, k + 1,
                           ParseState(Given(Number(trim(value)).value), st.signatures))
             ELSE IF trim(key) = Word("v1")
             THEN parseParts(parts, k + 1,
                      ParseState(st.timestamp, Append(st.signatures, trim(value))))
             ELSE parseParts(parts, k + 1, st)

\* parseStripeSignatureHeader(header): {timestamp, signatures} or null
parseStripeSignatureHeader(header) ==
    LET st == parseParts(header, 1, ParseState(Omitted, <<>>))
    IN  IF st = Null THEN Null
        ELSE IF ~st.timestamp.given \/ Len(st.signatures) = 0 THEN Null
        ELSE [timestamp |-> st.timestamp.value, signatures |-> st.signatures]

\* `${timestamp}.${rawBody.toString('utf-8')}`
signedPayload(timestamp, rawBody) == <<timestamp, ".", rawBody>>

\* crypto.createHmac('sha256', secret).update(payload).digest(): the 32-byte
\* MAC, kept symbolic (equal MACs come from equal key and payload only).
HmacSha256(secret, payload) == [alg |-> "sha256", key |-> secret, payload |-> payload]

\* Buffer.from(text, 'hex') for the texts sent as v1 values: decoding stops at
\* the first pair that is not two hex digits, and a single trailing digit is
\* dropped. A buffer is the bytes of a MAC it starts with (all 32, the first
\* 16, or none) and the number of bytes that follow them.
NoMac == [alg |-> "none", key |-> "", payload |-> <<0, ".", "">>]

BufferFromHex(text) ==
    IF text.kind = "hex"
    THEN [mac |-> text.mac, macBytes |-> 32, extra |-> IF text.tail = "00" THEN 1 ELSE 0]
    ELSE IF text.kind = "halfhex"
    THEN [mac |-> text.mac, macBytes |-> 16, extra |-> 0]
    ELSE [mac |-> NoMac, macBytes |-> 0, extra |-> 0]

\* buffer.length
byteLength(buf) == buf.macBytes + buf.extra

\* sigBuf.length === expectedBuf.length && crypto.timingSafeEqual(sigBuf, expectedBuf)
signatureMatches(sig, expectedSig) ==
    LET sigBuf == BufferFromHex(sig)
        expectedBuf == BufferFromHex(expectedSig)
    IN  byteLength(sigBuf) = byteLength(expectedBuf) /\ sigBuf = expectedBuf

\* A window that already closes at exactly `tolerance` seconds.
outsideToleranceInclusive(tolerance, nowMs, timestamp) ==
    tolerance > 0 /\ Abs(nowSeconds(nowMs) - timestamp) >= tolerance

\* if (tolerance > 0) { ... Math.abs(now - timestamp) > tolerance ... }
outsideTolerance(tolerance, nowMs, timestamp) ==
    tolerance > 0 /\ Abs(nowSeconds(nowMs) - timestamp) > tolerance

\* verifyStripeSignature(rawBody, signatureHeader, secret, tolerance) at the
\* clock reading nowMs
verifyStripeSignature(rawBody, signatureHeader, secret, toleranceArg, nowMs) ==
    LET parsed == parseStripeSignatureHeader(signatureHeader)
        tolerance == DefaultArg(toleranceArg, DEFAULT_TIMESTAMP_TOLERANCE)
    IN  IF parsed = Null
        THEN [valid |-> FALSE, reason |-> "Malformed Stripe-Signature header"]
        ELSE IF outsideTolerance(tolerance, nowMs, parsed.timestamp)
        THEN [valid |-> FALSE, reason |-> "Timestamp outside tolerance window"]
        ELSE LET expectedSig ==
                     Hex(HmacSha256(secret, signedPayload(parsed.timestamp, rawBody)), "")
             IN  IF \E k \in 1 .. Len(parsed.signatures) :
                        signatureMatches(parsed.signatures[k], expectedSig)
                 THEN [valid |-> TRUE, reason |-> UNDEF]
                 ELSE [valid |-> FALSE, reason |-> "Signature verification failed"]

-----------------------------------------------------------------------------
(* SpecStripeVerify: verifyStripeSignature applied to drawn arguments *)

\* Date.now() when the run starts, and the milliseconds between two readings
StripeEpochMs == 1000000
ClockStepMs   == 500

StripeSecret == "whsec_test"
WrongSecret  == "wrong-secret"

\* The second the run starts in, and the timestamps headers carry: exactly
\* the default tolerance old, a second old, current, two seconds ahead, and
\* one second more than the default tolerance ahead.
StripeEpoch == nowSeconds(StripeEpochMs)
StripeTimestamps ==
    {StripeEpoch - DEFAULT_TIMESTAMP_TOLERANCE, StripeEpoch - 1, StripeEpoch,
     StripeEpoch + 2, StripeEpoch + DEFAULT_TIMESTAMP_TOLERANCE + 1}

\* The tolerance argument: omitted (the default), disabled, one second.
StripeTolerances == {Omitted, Given(0), Given(1)}

\* The tests' helper: the header `t=${ts},v1=${sig}` Stripe (or someone
\* holding `secret`) sends for a delivery, ts being the timestamp argument or,
\* when it is omitted, the current second; sig is the hex digest of
\* `${ts}.${payload}`.
signStripePayload(payload, secret, timestamp, nowMs) ==
    LET ts == DefaultArg(timestamp, nowSeconds(nowMs))
        sig == Hex(HmacSha256(secret, signedPayload(ts, payload)), "")
    IN  <<Part(Word("t"), Decimal(ts)), Part(Word("v1"), sig)>>

\* The v1 value of a header the helper made.
SignatureOf(header) == header[2].value

\* The v1 values sent with timestamp ts: digests under the right and a wrong
\* key, of either body, for ts or for the current second; the right digest
\* followed by "zz", by one more hex digit or by one more byte; half of it;
\* and a word that is not hex.
V1Values(ts) ==
    {SignatureOf(signStripePayload(b, k, t, StripeEpochMs)) :
        b \in {StripeBodyEvent, StripeBodyNoType}, k \in {StripeSecret, WrongSecret},
        t \in {Given(ts), Omitted}}
    \cup {Hex(HmacSha256(StripeSecret, signedPayload(ts, StripeBodyEvent)), tail) :
              tail \in {"zz", "0", "00"}}
    \cup {HalfHex(HmacSha256(StripeSecret, signedPayload(ts, StripeBodyEvent))),
          Word("invalidsig")}

\* The signature headers: t=<ts>,v1=<sig>; two v1 values; white space around
\* keys and values; an unknown v0 key; v1 before t; two t parts; and the
\* malformed ones (no t, no v1, t not a number, no '=' at all, the empty
\* string).
StripeHeadersAt(ts) ==
    LET signed == signStripePayload(StripeBodyEvent, StripeSecret, Given(ts), StripeEpochMs)
        good == SignatureOf(signed)
        wrong == SignatureOf(signStripePayload(StripeBodyEvent, WrongSecret, Given(ts),
                                               StripeEpochMs))
        T == Part(Word("t"), Decimal(ts))
    IN  {signed}
        \cup {<<T, Part(Word("v1"), s)>> : s \in V1Values(ts)}
        \cup {<<T, Part(Word("v1"), Word("invalidsig")), Part(Word("v1"), s)>> :
                  s \in {good, wrong}}
        \cup {<<Part(Padded(Word("t")), Padded(Decimal(ts))),
                Part(Padded(Word("v1")), Padded(good))>>,
              <<T, Part(Word("v0"), good), Part(Word("v1"), Word("invalidsig"))>>,
              <<Part(Word("v1"), good), T>>,
              <<Part(Word("t"), Decimal(StripeEpoch)), T, Part(Word("v1"), good)>>,
              <<Part(Word("t"), Blank), Part(Word("v1"), good)>>,
              <<Part(Word("v1"), good)>>,
              <<T>>,
              <<Part(Word("t"), Word("notanumber")), Part(Word("v1"), good)>>,
              <<Bare(Word("malformed-header"))>>,
              <<Bare(Empty)>>}

StripeHeaders == UNION {StripeHeadersAt(ts) : ts \in StripeTimestamps}

\* The arguments of one call.
StripeRequests ==
    [rawBody : {StripeBodyEvent, StripeBodyNoType}, header : StripeHeaders,
     secret : {StripeSecret}, tolerance : StripeTolerances]

NoVerifyCall == [called |-> FALSE, nowMs |-> 0,
                 result |-> [valid |-> FALSE, reason |-> UNDEF]]

NoStripeRequest == [rawBody |-> StripeBodyEvent, header |-> <<Bare(Empty)>>,
                    secret |-> StripeSecret, tolerance |-> Omitted]

\* verifyStripeSignature(rawBody, header, secret, tolerance), reading the clock
StripeVerify ==
    /\ sres' = [called |-> TRUE, nowMs |-> sclock,
                result |-> verifyStripeSignature(sreq.rawBody, sreq.header, sreq.secret,
                                                 sreq.tolerance, sclock)]
    /\ UNCHANGED <<sreq, sclock, stripe, slast, ringVars, ingVars, mgrVars, mergeVars, tunnelVars, clientVars, taskVars>>

\* Time passes.
StripeTick ==
    /\ sclock < StripeEpochMs + MaxStripeTicks * ClockStepMs
    /\ sclock' = sclock + ClockStepMs
    /\ slast' = [op |-> "tick", accepted |-> FALSE, reason |-> UNDEF,
                 rawBody |-> BodyNotJson]
    /\ UNCHANGED <<sreq, sres, stripe, ringVars, ingVars, mgrVars, mergeVars, tunnelVars, clientVars, taskVars>>

-----------------------------------------------------------------------------
(* StripeWebhookIngestor (./stripe-webhook-ingestor.js) and SpecStripe *)

MaxStripeEvents == 2        \* events one Stripe ingestor receives
MaxStripeBuffer == 2        \* buffer sizes 1..MaxStripeBuffer of the Stripe ingestor

StripeSecretName == "STRIPE_WEBHOOK_SECRET"
StripeHeaderName == "Stripe-Signature"

\* body.type ?? 'unknown' and body.id of a parsed body
stripeEventType(body) == IF "type" \in DOMAIN body THEN body.type ELSE "unknown"
stripeEventId(body) == IF "id" \in DOMAIN body THEN body.id ELSE UNDEF

\* !signature on the stripe-signature header: absent, or the empty string
stripeSignatureFalsy(sig) == ~sig.given \/ sig.value = <<Bare(Empty)>>

\* What one handleWebhook call returns, with the ingestor it leaves.
StripeOutcome(i, accepted, reason) == [ing |-> i, accepted |-> accepted, reason |-> reason]

\* StripeWebhookIngestor.handleWebhook(headers, rawBody) at clock reading nowMs
stripeHandleWebhook(i, headers, rawBody, nowMs) ==
    LET configured == verificationConfigured(i)
        secret     == SecretLookup(i.secrets, i.signatureSecretName)
        signature  == headers[STRIPE_SIGNATURE_HEADER]
        result     == verifyStripeSignature(rawBody, signature.value, secret, Omitted, nowMs)
        parsed     == JSONParse(rawBody)
        eventType  == stripeEventType(parsed.value)
    IN  IF configured /\ secretMissing(secret)
        THEN StripeOutcome(i, FALSE, "Signature secret not configured")
        ELSE IF configured /\ stripeSignatureFalsy(signature)
        THEN StripeOutcome(i, FALSE, "Missing signature header")
        ELSE IF configured /\ ~result.valid
        THEN StripeOutcome(i, FALSE, result.reason)
        ELSE IF ~parsed.ok
        THEN StripeOutcome(i, FALSE, "Invalid JSON body")
        ELSE StripeOutcome(pushEvent(i, eventType,
                                     [eventId |-> stripeEventId(parsed.value),
                                      type    |-> eventType,
                                      payload |-> parsed.value], nowMs),
                           TRUE, UNDEF)

\* The ingestors under test: one without verification, one verifying with
\* its secret resolved.
StripeSetups ==
    { [header |-> UNDEF, secret |-> UNDEF, secrets |-> <<>>],
      [header |-> StripeHeaderName, secret |-> StripeSecretName,
       secrets |-> [n \in {StripeSecretName} |-> StripeSecret]] }

\* The deliveries: a body, and either no signature header or a header for
\* the body signed now or more than the tolerance ago, under the right or a
\* wrong key, or a malformed header.
StripeBodies == {StripeBodyEvent, StripeBodyNoType, BodyNotJson}

StripeDeliveryHeaders(rawBody) ==
    {[n \in {STRIPE_SIGNATURE_HEADER} |-> Omitted]}
    \cup {[n \in {STRIPE_SIGNATURE_HEADER} |->
              Given(signStripePayload(rawBody, k, ts, StripeEpochMs))] :
             ts \in {Omitted, Given(StripeEpoch - DEFAULT_TIMESTAMP_TOLERANCE - 1)},
             k \in {StripeSecret, WrongSecret}}
    \cup {[n \in {STRIPE_SIGNATURE_HEADER} |-> Given(h)] :
             h \in {<<Bare(Word("not-a-valid-header"))>>, <<Bare(Empty)>>}}

NoStripeCall == [op |-> "new", accepted |-> FALSE, reason |-> UNDEF,
                 rawBody |-> BodyNotJson]

IdleStripe ==
    StripeWebhookIngestor("stripe", <<>>,
        [path |-> "stripe", signatureHeader |-> UNDEF, signatureSecret |-> UNDEF], 1)

\* The Express route calls ingestor.handleWebhook(headers, rawBody).
StripeHandleWebhook(headers, rawBody) ==
    LET out == stripeHandleWebhook(stripe, headers, rawBody, sclock)
    IN  /\ out.ing.totalEventsReceived <= MaxStripeEvents
        /\ stripe' = out.ing
        /\ slast' = [op |-> "handleWebhook", accepted |-> out.accepted,
                     reason |-> out.reason, rawBody |-> rawBody]
        /\ UNCHANGED <<sreq, sres, sclock, ringVars, ingVars, mgrVars, mergeVars, tunnelVars, clientVars, taskVars>>

-----------------------------------------------------------------------------
(* IngestorManager.mergeIngestorConfig (manager.ts), over objects held by
   reference *)

MaxObjects == 9   \* objects that exist during one merge

\* An address that holds no object, and the memory before anything is made.
NoObject == [free |-> TRUE]
EmptyMemory == [a \in 1 .. MaxObjects |-> NoObject]

\* The address a new object literal gets: the lowest free one.
alloc(m) == CHOOSE a \in 1 .. MaxObjects :
                /\ m[a] = NoObject
                /\ \A b \in 1 .. a - 1 : m[b] # NoObject

\* An array literal: an object of its own, held by reference.
ArrayOf(items) == [items |-> items]

\* The fields of a block or of an overrides object whose value is an object
\* (an array, or the request body of a poll block), in the order the
\* literals are written.
NestedFields == <<"eventFilter", "guildIds", "channelIds", "userIds", "body">>

\* The websocket block of the templates: optional fields are Omitted or Given.
WebsocketBlock(intents, guildIds) ==
    [gatewayUrl  |-> "wss://gateway.discord.gg/?v=10&encoding=json",
     protocol    |-> Given("discord"),
     intents     |-> intents,
     eventFilter |-> Omitted,
     guildIds    |-> guildIds,
     channelIds  |-> Omitted,
     userIds     |-> Omitted]

\* const pollConfig of the tests
PollBlock ==
    [url |-> "https://api.example.com/items", intervalMs |-> 60000,
     method |-> Given("POST"), body |-> Given([query |-> "test"]),
     deduplicateBy |-> Given("id"), responsePath |-> Given("results"),
     eventType |-> Given("item_updated")]

\* An IngestorConfig as a value: its type and the block it has.
IngestorConfig(type, block) ==
    [type      |-> type,
     websocket |-> IF type = "websocket" THEN Given(block) ELSE Omitted,
     webhook   |-> IF type = "webhook" THEN Given(block) ELSE Omitted,
     poll      |-> IF type = "poll" THEN Given(block) ELSE Omitted]

\* The templates merged: the tests' baseConfig, a websocket template that
\* already names guilds, the tests' webhookConfig and pollConfig.
MergeTemplates ==
    {IngestorConfig("websocket", WebsocketBlock(Given(3276799), Omitted)),
     IngestorConfig("websocket", WebsocketBlock(Omitted, Given(ArrayOf(<<"1">>)))),
     IngestorConfig("webhook", [path |-> "github"]),
     IngestorConfig("poll", PollBlock)}

\* IngestorOverrides objects: every combination of the six fields, each
\* absent or set; and no overrides object at all.
MergeOverrides ==
    {Omitted} \cup
    {Given([intents |-> i, eventFilter |-> e, guildIds |-> g,
            channelIds |-> c, userIds |-> u, intervalMs |-> p]) :
        i \in {Omitted, Given(4609)},
        e \in {Omitted, Given(ArrayOf(<<"MESSAGE_CREATE">>))},
        g \in {Omitted, Given(ArrayOf(<<"123", "456">>))},
        c \in {Omitted, Given(ArrayOf(<<"789">>))},
        u \in {Omitted, Given(ArrayOf(<<"user1", "user2">>))},
        p \in {Omitted, Given(30000)}}

\* An object literal with nested literals: each nested object gets an address
\* of its own and the outer object holds the reference.
RECURSIVE storeNested(_, _, _)
storeNested(m, object, fields) ==
    IF fields = <<>> THEN [mem |-> m, object |-> object]
    ELSE LET f == Head(fields)
         IN  IF f \in DOMAIN object /\ object[f].given
             THEN storeNested([m EXCEPT ![alloc(m)] = object[f].value],
                              [object EXCEPT ![f] = Given(alloc(m))], Tail(fields))
             ELSE storeNested(m, object, Tail(fields))

\* The memory holding the arguments of a call: the config object at address
\* 1 refers to its block at address 2, the block to its nested objects, and
\* the overrides object to its arrays. The overrides object itself is only
\* read, and is kept as the value of its fields.
Load(config, overrides) ==
    LET top   == [EmptyMemory EXCEPT ![1] = [config EXCEPT ![config.type] = Given(2)],
                                     ![2] = config[config.type].value]
        block == storeNested(top, config[config.type].value, NestedFields)
        tmpl  == [block.mem EXCEPT ![2] = block.object]
        args  == IF overrides.given THEN storeNested(tmpl, overrides.value, NestedFields)
                 ELSE [mem |-> tmpl, object |-> Omitted]
    IN  [mem |-> args.mem,
         overrides |-> IF overrides.given THEN Given(args.object) ELSE Omitted]

\* An object read through the references it holds.
DerefObject(m, object) ==
    [f \in DOMAIN object |->
        IF (\E k \in 1 .. Len(NestedFields) : NestedFields[k] = f) /\ object[f].given
        THEN Given(m[object[f].value])
        ELSE object[f]]

\* The config an address stands for, its blocks and their nested objects
\* read through their references.
Deref(m, a) ==
    [type      |-> m[a].type,
     websocket |-> IF m[a].websocket.given
                   THEN Given(DerefObject(m, m[m[a].websocket.value])) ELSE Omitted,
     webhook   |-> IF m[a].webhook.given THEN Given(m[m[a].webhook.value]) ELSE Omitted,
     poll      |-> IF m[a].poll.given
                   THEN Given(DerefObject(m, m[m[a].poll.value])) ELSE Omitted]

\* The addresses of the objects nested in the block at b.
NestedOf(m, b) ==
    {m[b][NestedFields[k]].value :
        k \in {k \in 1 .. Len(NestedFields) :
                   NestedFields[k] \in DOMAIN m[b] /\ m[b][NestedFields[k]].given}}

\* The addresses of the objects a config is made of: the config object, its
\* block and the objects nested in the block.
ObjectsOf(m, a) ==
    LET blocks == {m[a][t].value : t \in {t \in {"websocket", "webhook", "poll"} : m[a][t].given}}
    IN  {a} \cup blocks \cup UNION {NestedOf(m, b) : b \in blocks}

\* A "copy" that is the object itself.
shallowCopyAlias(m, a) == [mem |-> m, addr |-> a]

\* { ...object }: a new object with the same fields
shallowCopy(m, a) == [mem |-> [m EXCEPT ![alloc(m)] = m[a]], addr |-> alloc(m)]

\* An assignment made whether or not the override is set.
applyOverrideAlways(block, field, value) == [block EXCEPT ![field] = value]

\* if (overrides.field !== undefined) block.field = overrides.field
applyOverride(block, field, value) ==
    IF value.given THEN [block EXCEPT ![field] = value] ELSE block

\* The override fields that go into a websocket block.
WebsocketOverrideFields == <<"intents", "eventFilter", "guildIds", "channelIds", "userIds">>

RECURSIVE applyOverrides(_, _, _)
applyOverrides(block, fields, o) ==
    IF fields = <<>> THEN block
    ELSE applyOverrides(applyOverride(block, Head(fields), o[Head(fields)]),
                        Tail(fields), o)

\* static mergeIngestorConfig(templateConfig, overrides): the memory it
\* leaves and the address of the config it returns
mergeIngestorConfig(m, template, overrides) ==
    IF ~overrides.given THEN [mem |-> m, result |-> template]
    ELSE LET o   == overrides.value
             top == shallowCopy(m, template)
             ws  == IF top.mem[top.addr].websocket.given
                    THEN LET c == shallowCopy(top.mem, top.mem[top.addr].websocket.value)
                         IN  [c.mem EXCEPT
                                 ![top.addr].websocket = Given(c.addr),
                                 ![c.addr] = applyOverrides(@, WebsocketOverrideFields, o)]
                    ELSE top.mem
             pl  == IF ws[top.addr].poll.given /\ o.intervalMs.given
                    THEN LET c == shallowCopy(ws, ws[top.addr].poll.value)
                         IN  [c.mem EXCEPT
                                 ![top.addr].poll = Given(c.addr),
                                 ![c.addr].intervalMs = o.intervalMs.value]
                    ELSE ws
         IN  [mem |-> pl, result |-> top.addr]

\* No call made: the arguments, the memory at the call, the address returned.
NoMergeCall ==
    [template |-> 1, overrides |-> Omitted, before |-> EmptyMemory,
     done |-> FALSE, result |-> 0]

\* IngestorManager.mergeIngestorConfig(template, overrides)
Merge ==
    /\ ~mcall.done
    /\ LET r == mergeIngestorConfig(mem, mcall.template, mcall.overrides)
       IN  /\ mem' = r.mem
           /\ mcall' = [mcall EXCEPT !.done = TRUE, !.result = r.result, !.before = mem]
    /\ UNCHANGED <<ringVars, ingVars, mgrVars, stripeVars, tunnelVars, clientVars, taskVars>>

-----------------------------------------------------------------------------
(* Constructing an ingestor with or without a buffer size
   (src/unnamed/part_001, src/src/remote/ingestors/webhook/webhook-ingestor.ts) *)

\* export const MAX_BUFFER_SIZE = 1000
MAX_BUFFER_SIZE == 1000

\* The buffer sizes handed to the constructor or the factory: none, and
\* numbers at and next to the ends of the range 1 .. MAX_BUFFER_SIZE.
BufferSizeArgs ==
    {Omitted, Given(0), Given(1), Given(DEFAULT_BUFFER_SIZE),
     Given(MAX_BUFFER_SIZE), Given(MAX_BUFFER_SIZE + 1)}

\* The record of a construction: how it was made and with which buffer size.
Constructed(via, bufferSizeArg) ==
    [op |-> "construct", via |-> via, bufferSize |-> bufferSizeArg]

\* What a construction yields from a setup and a buffer size argument,
\* through the constructor, through the factory registered for 'webhook',
\* or through the registry's createIngestor for a stanza with protocol
\* stripe (the tests' createIngestor('stripe', ...)).
constructIngestor(via, setup, bufferSizeArg) ==
    LET webhookConfig == [path |-> "github", signatureHeader |-> setup.header,
                          signatureSecret |-> setup.secret]
        stripeConfig  == [path |-> "stripe", protocol |-> "stripe",
                          signatureHeader |-> setup.header,
                          signatureSecret |-> setup.secret]
    IN  IF via = "factory"
        THEN webhookFactory("github",
                            [type |-> "webhook", webhook |-> TRUE, websocket |-> FALSE,
                             config |-> webhookConfig],
                            setup.secrets, bufferSizeArg).ingestor
        ELSE IF via = "registry"
        THEN registryCreateIngestor("stripe",
                            [type |-> "webhook", webhook |-> TRUE, websocket |-> FALSE,
                             config |-> stripeConfig],
                            setup.secrets).ingestor
        ELSE GitHubWebhookIngestor("github", setup.secrets, webhookConfig,
                                   bufferSizeParameter(bufferSizeArg))

\* new GitHubWebhookIngestor(...), the factory call or the registry's
\* createIngestor (which takes no buffer size), replacing the ingestor at
\* hand.
Construct ==
    \E via \in {"constructor", "factory", "registry"}, setup \in IngestorSetups,
       bufferSizeArg \in BufferSizeArgs :
        /\ via = "registry" => bufferSizeArg = Omitted
        /\ ing' = constructIngestor(via, setup, bufferSizeArg)
        /\ last' = Constructed(via, bufferSizeArg)
        /\ UNCHANGED <<now, issued, stream, ringVars, mgrVars, stripeVars, mergeVars,
                       tunnelVars, clientVars, taskVars>>

-----------------------------------------------------------------------------
(* startTunnel and its cloudflared child  (src/src/remote/tunnel.ts) *)

MaxTunnelTicks == 4    \* clock ticks of TickMs the tunnel is watched for
MaxStops       == 2    \* calls of TunnelResult.stop()

\* const { timeout = 15_000 } = options
DEFAULT_TUNNEL_TIMEOUT == 15000

\* setTimeout(..., 5_000) in stopTunnel
KILL_TIMEOUT == 5000

\* The granularity of the clock, in milliseconds: the shortest timer.
TickMs == KILL_TIMEOUT

\* The exit code of a child that could not be spawned: -ENOENT.
ENOENT == 0 - 2

\* A line of cloudflared output is a sequence of pieces of text; the pieces
\* a host label is made of are single characters.
LabelClass == {"a", "b", "7", "-"}

\* The number of pieces from position i on that [a-z0-9-]+ consumes.
RECURSIVE labelRun(_, _)
labelRun(line, i) ==
    IF i <= Len(line) /\ line[i] \in LabelClass
    THEN 1 + labelRun(line, i + 1)
    ELSE 0

\* TUNNEL_URL_RE matches at position i: https:// then one or more label
\* characters, then .trycloudflare.com right after them.
matchesAt(line, i) ==
    /\ line[i] = "https://"
    /\ labelRun(line, i + 1) >= 1
    /\ i + 1 + labelRun(line, i + 1) <= Len(line)
    /\ line[i + 1 + labelRun(line, i + 1)] = ".trycloudflare.com"

\* A pattern that takes any scheme and any host label.
execAnyUrl(line) ==
    IF \E i \in 1 .. Len(line) - 1 : line[i + 1] # ".trycloudflare.com" /\ i + 2 <= Len(line)
                                      /\ line[i + 2] = ".trycloudflare.com"
    THEN LET i == CHOOSE k \in 1 .. Len(line) - 2 : line[k + 2] = ".trycloudflare.com"
         IN  [matched |-> TRUE, url |-> SubSeq(line, i, i + 2)]
    ELSE [matched |-> FALSE]

\* TUNNEL_URL_RE.exec(line): the leftmost match, as match[0], or null.
TUNNEL_URL_RE_exec(line) ==
    IF \E i \in 1 .. Len(line) : matchesAt(line, i)
    THEN LET i == CHOOSE k \in 1 .. Len(line) :
                      matchesAt(line, k) /\ \A j \in 1 .. k - 1 : ~matchesAt(line, j)
         IN  [matched |-> TRUE, url |-> SubSeq(line, i, i + 1 + labelRun(line, i + 1))]
    ELSE [matched |-> FALSE]

\* The chunks the child writes to stdout or stderr: a log line without a
\* URL; a bare tunnel URL; a URL inside a log line and followed by a path;
\* URLs the pattern refuses (upper case label, http scheme, other domain,
\* empty label); a refused URL followed by a good one.
TunnelChunks ==
    { <<"INF starting">>,
      <<"https://", "a", "-", "7", ".trycloudflare.com">>,
      <<"INF ", "https://", "b", ".trycloudflare.com", "/path">>,
      <<"https://", "A", ".trycloudflare.com">>,
      <<"http://", "a", ".trycloudflare.com">>,
      <<"https://", "a", ".example.com">>,
      <<"https://", ".trycloudflare.com">>,
      <<"https://", "A", ".trycloudflare.com", " ", "https://", "b", ".trycloudflare.com">> }

\* The timeout option of a call: absent, or a number of milliseconds.
TunnelTimeouts == {Omitted, Given(TickMs), Given(2 * TickMs)}

\* A promise not yet settled.
Pending == [state |-> "pending"]

\* A timer that was never set.
NoTimer == [state |-> "none", deadline |-> 0]

\* setTimeout(callback, ms) at clock reading c
setTimeout(c, ms) == [state |-> "armed", deadline |-> c + ms]

\* clearTimeout(timer): a timer that is armed is cancelled.
clearTimeout(timer) ==
    IF timer.state = "armed" THEN [timer EXCEPT !.state = "cleared"] ELSE timer

\* A child process that has not been spawned.
NoChild ==
    [spawned |-> FALSE, exitCode |-> Null, signalCode |-> Null,
     exited |-> FALSE, closed |-> FALSE, errored |-> FALSE]

\* spawn(...): a running child; exitCode and signalCode are null.
spawn == [NoChild EXCEPT !.spawned = TRUE]

\* Before startTunnel is called.
NoTunnel ==
    [phase       |-> "idle",
     options     |-> Omitted,
     timeout     |-> 0,
     vchild      |-> NoChild,
     available   |-> Pending,
     spawns      |-> 0,
     clock       |-> 0,
     settled     |-> FALSE,
     tunnelUrl   |-> Null,
     timer       |-> NoTimer,
     outcome     |-> Pending,
     settleCalls |-> 0,
     child       |-> NoChild,
     kills       |-> <<>>,
     stops       |-> <<>>,
     first       |-> Null]

\* resolve(value) of the promise startTunnel returns: the first call of
\* resolve or reject decides, every call is counted.
resolve(t, url) ==
    [t EXCEPT !.outcome = IF t.outcome = Pending
                          THEN [state |-> "resolved", url |-> url]
                          ELSE t.outcome,
              !.settleCalls = t.settleCalls + 1]

\* reject(new Error(...)) of the promise startTunnel returns.
reject(t, error) ==
    [t EXCEPT !.outcome = IF t.outcome = Pending
                          THEN [state |-> "rejected", error |-> error]
                          ELSE t.outcome,
              !.settleCalls = t.settleCalls + 1]

\* child.kill(signal): the call is made; the signal reaches the process
\* only while the process has not exited.
kill(t, signal, from) ==
    [t EXCEPT !.kills = Append(t.kills,
                   [signal |-> signal, from |-> from, delivered |-> ~t.child.exited])]

\* new Error(`Timed out after ${timeout}ms waiting for tunnel URL`)
TimedOut(ms) == [message |-> "Timed out", ms |-> ms]

\* new Error(`cloudflared failed to start: ${err.message}`)
FailedToStart == [message |-> "cloudflared failed to start"]

\* new Error(`cloudflared exited with code ${code} before emitting a URL`)
ExitedBeforeUrl(code) == [message |-> "exited before emitting a URL", code |-> code]

\* new Error(`cloudflared binary not found. ${INSTALL_HINT}`)
BinaryNotFound == [message |-> "cloudflared binary not found"]

\* A timeout callback that signals the child whatever has been settled.
onTimeoutUnguarded(t) ==
    reject(kill([t EXCEPT !.settled = TRUE], "SIGTERM", "timeout"), TimedOut(t.timeout))

\* The timeout callback: if (!settled) { settled = true; kill; reject }
onTimeout(t) ==
    IF ~t.settled
    THEN reject(kill([t EXCEPT !.settled = TRUE], "SIGTERM", "timeout"),
                TimedOut(t.timeout))
    ELSE t

\* A handleData that leaves the timeout timer running.
handleDataKeepsTimer(t, chunk) ==
    LET match == TUNNEL_URL_RE_exec(chunk)
    IN  IF t.settled \/ ~match.matched
        THEN t
        ELSE resolve([t EXCEPT !.tunnelUrl = match.url, !.settled = TRUE], match.url)

\* handleData(chunk): once settled nothing; else on a match remember the
\* URL, settle, cancel the timer and resolve with the URL.
handleData(t, chunk) ==
    LET match == TUNNEL_URL_RE_exec(chunk)
    IN  IF t.settled \/ ~match.matched
        THEN t
        ELSE resolve([t EXCEPT !.tunnelUrl = match.url,
                               !.settled = TRUE,
                               !.timer = clearTimeout(t.timer)],
                     match.url)

\* child.on('error'): if (!settled) { settled = true; clearTimeout; reject }
onError(t) ==
    IF ~t.settled
    THEN reject([t EXCEPT !.settled = TRUE, !.timer = clearTimeout(t.timer)],
                FailedToStart)
    ELSE t

\* A close handler that rejects whether or not the promise was settled.
onCloseUnguarded(t, code) ==
    reject([t EXCEPT !.settled = TRUE, !.timer = clearTimeout(t.timer)],
           ExitedBeforeUrl(code))

\* child.on('close'): if (!settled) { settled = true; clearTimeout; reject }
onClose(t, code) ==
    IF ~t.settled
    THEN reject([t EXCEPT !.settled = TRUE, !.timer = clearTimeout(t.timer)],
                ExitedBeforeUrl(code))
    ELSE t

\* An availability test that takes every close of the version child.
availableOnAnyClose(code) == TRUE

\* resolve(code === 0) in isCloudflaredAvailable's close listener
availableOnClose(code) == code = 0

\* A stop() that is waiting for the child to close; hadExited tells whether
\* the process had exited when stop() was called.
StopWaiting(t) ==
    [returned |-> FALSE, resolved |-> FALSE, hadExited |-> t.child.exited,
     killTimer |-> setTimeout(t.clock, KILL_TIMEOUT)]

\* A stop() that returned at once.
StopReturned(t) ==
    [returned |-> TRUE, resolved |-> TRUE, hadExited |-> t.child.exited,
     killTimer |-> NoTimer]

\* A stopTunnel that tests whether the child has closed, not its exit code.
stopTunnelIfOpen(t) ==
    IF t.child.closed
    THEN [t EXCEPT !.stops = Append(t.stops, StopReturned(t))]
    ELSE kill([t EXCEPT !.stops = Append(t.stops, StopWaiting(t))],
              "SIGTERM", "stop")

\* stopTunnel(): if (child.exitCode !== null) return; else set the kill
\* timer, listen for 'close', and send SIGTERM.
stopTunnel(t) ==
    IF t.child.exitCode # Null
    THEN [t EXCEPT !.stops = Append(t.stops, StopReturned(t))]
    ELSE kill([t EXCEPT !.stops = Append(t.stops, StopWaiting(t))],
              "SIGTERM", "stop")

\* The kill timer's callback of the k-th stop(): child.kill('SIGKILL')
onKillTimer(t, k) ==
    kill([t EXCEPT !.stops[k].killTimer.state = "fired"], "SIGKILL", "killTimer")

\* The 'close' listeners the stop() calls registered: clearTimeout(killTimer); res()
onCloseStops(t) ==
    [t EXCEPT !.stops = [k \in 1 .. Len(t.stops) |->
                            IF t.stops[k].returned \/ t.stops[k].resolved
                            THEN t.stops[k]
                            ELSE [t.stops[k] EXCEPT
                                      !.resolved = TRUE,
                                      !.killTimer = clearTimeout(t.stops[k].killTimer)]]]

\* The first event since the spawn that decides the promise, as the child
\* and the clock produced it.
firstEvent(t, event) == IF t.first = Null THEN [t EXCEPT !.first = event] ELSE t

\* Some timer is due at the clock's reading.
timerDue(t) ==
    \/ t.timer.state = "armed" /\ t.timer.deadline <= t.clock
    \/ \E k \in 1 .. Len(t.stops) :
           /\ t.stops[k].killTimer.state = "armed"
           /\ t.stops[k].killTimer.deadline <= t.clock

\* resolve(value) of the promise isCloudflaredAvailable returns: the first
\* call decides.
resolveAvailable(t, value) ==
    [t EXCEPT !.available = IF t.available = Pending
                            THEN [state |-> "resolved", value |-> value]
                            ELSE t.available]

\* The rest of startTunnel after `await isCloudflaredAvailable()`: throw
\* when the value is false, else spawn the tunnel child, set the timeout
\* timer and register the handlers.
afterPreflight(t) ==
    IF ~t.available.value
    THEN [t EXCEPT !.phase = "notfound",
                   !.outcome = [state |-> "rejected", error |-> BinaryNotFound]]
    ELSE [t EXCEPT !.phase = "spawned",
                   !.spawns = t.spawns + 1,
                   !.child = spawn,
                   !.timer = setTimeout(t.clock, t.timeout)]

\* startTunnel(options): read the timeout and spawn `cloudflared --version`.
StartTunnel(timeoutArg) ==
    /\ tun.phase = "idle"
    /\ tun' = [tun EXCEPT !.phase = "preflight",
                          !.options = timeoutArg,
                          !.timeout = DefaultArg(timeoutArg, DEFAULT_TUNNEL_TIMEOUT),
                          !.vchild = spawn]
    /\ UNCHANGED <<ringVars, ingVars, mgrVars, stripeVars, mergeVars, clientVars, taskVars>>

\* The version child emits 'error': the listener calls resolve(false).
VersionError ==
    /\ tun.vchild.spawned /\ ~tun.vchild.errored /\ ~tun.vchild.closed
    /\ tun' = resolveAvailable([tun EXCEPT !.vchild.errored = TRUE,
                                           !.vchild.exited = TRUE,
                                           !.vchild.exitCode = [code |-> ENOENT]],
                               FALSE)
    /\ UNCHANGED <<ringVars, ingVars, mgrVars, stripeVars, mergeVars, clientVars, taskVars>>

\* The version child emits 'close' with its exit code: the listener calls
\* resolve(code === 0).
VersionClose(code) ==
    /\ tun.vchild.spawned /\ ~tun.vchild.closed
    /\ tun.vchild.errored => code = ENOENT
    /\ tun' = resolveAvailable([tun EXCEPT !.vchild.closed = TRUE,
                                           !.vchild.exited = TRUE,
                                           !.vchild.exitCode = [code |-> code]],
                               availableOnClose(code))
    /\ UNCHANGED <<ringVars, ingVars, mgrVars, stripeVars, mergeVars, clientVars, taskVars>>

\* startTunnel resumes after `await isCloudflaredAvailable()`, the promise
\* having been resolved: if (!available) throw ...; else spawn the tunnel.
PreflightResume ==
    /\ tun.phase = "preflight"
    /\ tun.available # Pending
    /\ tun' = afterPreflight(tun)
    /\ UNCHANGED <<ringVars, ingVars, mgrVars, stripeVars, mergeVars, clientVars, taskVars>>

\* The tunnel child writes a chunk to stdout or stderr.
TunnelData(chunk) ==
    /\ tun.phase = "spawned"
    /\ ~tun.child.closed
    /\ LET t == IF TUNNEL_URL_RE_exec(chunk).matched
                THEN firstEvent(tun, [event |-> "url", chunk |-> chunk])
                ELSE tun
       IN  tun' = handleData(t, chunk)
    /\ UNCHANGED <<ringVars, ingVars, mgrVars, stripeVars, mergeVars, clientVars, taskVars>>

\* The timeout timer fires.
TunnelTimeout ==
    /\ tun.phase = "spawned"
    /\ tun.timer.state = "armed"
    /\ tun.timer.deadline <= tun.clock
    /\ tun' = onTimeout(firstEvent([tun EXCEPT !.timer.state = "fired"],
                                   [event |-> "timeout"]))
    /\ UNCHANGED <<ringVars, ingVars, mgrVars, stripeVars, mergeVars, clientVars, taskVars>>

\* The tunnel child emits 'error': it could not be spawned (and then has
\* the exit code -ENOENT), or a signal could not be sent to it.
TunnelError(spawnFailed) ==
    /\ tun.phase = "spawned"
    /\ ~tun.child.errored /\ ~tun.child.closed
    /\ spawnFailed => ~tun.child.exited
    /\ LET t == IF spawnFailed
                THEN [tun EXCEPT !.child.errored = TRUE,
                                 !.child.exited = TRUE,
                                 !.child.exitCode = [code |-> ENOENT]]
                ELSE [tun EXCEPT !.child.errored = TRUE]
       IN  tun' = onError(firstEvent(t, [event |-> "error"]))
    /\ UNCHANGED <<ringVars, ingVars, mgrVars, stripeVars, mergeVars, clientVars, taskVars>>

\* The tunnel process exits with a code, or is terminated by a signal that
\* was delivered to it: exitCode or signalCode is set, the other stays null.
TunnelExit(how) ==
    /\ tun.phase = "spawned"
    /\ ~tun.child.exited
    /\ "signal" \in DOMAIN how =>
           \E k \in 1 .. Len(tun.kills) :
               tun.kills[k].delivered /\ tun.kills[k].signal = how.signal
    /\ tun' = IF "signal" \in DOMAIN how
              THEN [tun EXCEPT !.child.exited = TRUE, !.child.signalCode = how]
              ELSE [tun EXCEPT !.child.exited = TRUE, !.child.exitCode = how]
    /\ UNCHANGED <<ringVars, ingVars, mgrVars, stripeVars, mergeVars, clientVars, taskVars>>

\* The tunnel child, having exited, emits 'close' with its exit code: the
\* listener of startTunnel runs, then those of the stop() calls.
TunnelClose ==
    /\ tun.phase = "spawned"
    /\ tun.child.exited /\ ~tun.child.closed
    /\ LET t == firstEvent([tun EXCEPT !.child.closed = TRUE],
                           [event |-> "close", code |-> tun.child.exitCode])
       IN  tun' = onCloseStops(onClose(t, tun.child.exitCode))
    /\ UNCHANGED <<ringVars, ingVars, mgrVars, stripeVars, mergeVars, clientVars, taskVars>>

\* The holder of the TunnelResult calls stop().
Stop_Tunnel ==
    /\ tun.outcome.state = "resolved"
    /\ Len(tun.stops) < MaxStops
    /\ tun' = stopTunnel(tun)
    /\ UNCHANGED <<ringVars, ingVars, mgrVars, stripeVars, mergeVars, clientVars, taskVars>>

\* The kill timer of a stop() fires.
KillTimerFires ==
    /\ \E k \in 1 .. Len(tun.stops) :
           /\ tun.stops[k].killTimer.state = "armed"
           /\ tun.stops[k].killTimer.deadline <= tun.clock
           /\ tun' = onKillTimer(tun, k)
    /\ UNCHANGED <<ringVars, ingVars, mgrVars, stripeVars, mergeVars, clientVars, taskVars>>

\* Time passes; a timer that is due fires before more time passes.
TunnelTick ==
    /\ tun.phase = "spawned"
    /\ tun.clock < MaxTunnelTicks * TickMs
    /\ ~timerDue(tun)
    /\ tun' = [tun EXCEPT !.clock = tun.clock + TickMs]
    /\ UNCHANGED <<ringVars, ingVars, mgrVars, stripeVars, mergeVars, clientVars, taskVars>>

-----------------------------------------------------------------------------
(* The specifications *)

NextRing ==
    \/ \E item \in RingItems : RingPush(item)
    \/ RingClear

\* new RingBuffer(c) for a capacity c >= 1; the other objects stay idle
InitRing ==
    /\ \E c \in 1 .. MaxCapacity : rb = RingBuffer(c)
    /\ pushed = <<>>
    /\ everCleared = FALSE
    /\ ing = IdleIngestor
    /\ now = 0
    /\ issued = <<>>
    /\ stream = "none"
    /\ last = NoCall
    /\ ingestors = <<>>
    /\ instances = EmptyPool
    /\ mlast = NoManagerCall
    /\ sreq = NoStripeRequest
    /\ sres = NoVerifyCall
    /\ sclock = StripeEpochMs
    /\ stripe = IdleStripe
    /\ slast = NoStripeCall
    /\ mem = EmptyMemory
    /\ mcall = NoMergeCall
    /\ tun = NoTunnel
    /\ client = NoClient
    /\ tasks = NoTasks

SpecRing == InitRing /\ [][NextRing]_vars

HandleWebhookCall == \E headers \in RequestHeaders, rawBody \in Bodies :
                         HandleWebhook(headers, rawBody)

PushEventCall == PushEvent("MESSAGE_CREATE", [content |-> "hi"])

NextIngestor ==
    \/ Start
    \/ Stop
    \/ PushEventCall
    \/ HandleWebhookCall
    \/ ClearBuffer

\* new GitHubWebhookIngestor('github', secrets, webhookConfig, bufferSize)
InitIngestor ==
    /\ rb = RingBuffer(1)
    /\ pushed = <<>>
    /\ everCleared = FALSE
    /\ \E s \in IngestorSetups, bufferSize \in 1 .. MaxIngestorBuffer :
          ing = GitHubWebhookIngestor("github", s.secrets,
                    [path |-> "github", signatureHeader |-> s.header,
                     signatureSecret |-> s.secret], bufferSize)
    /\ now = 0
    /\ issued = <<>>
    /\ stream = "none"
    /\ last = NoCall
    /\ ingestors = <<>>
    /\ instances = EmptyPool
    /\ mlast = NoManagerCall
    /\ sreq = NoStripeRequest
    /\ sres = NoVerifyCall
    /\ sclock = StripeEpochMs
    /\ stripe = IdleStripe
    /\ slast = NoStripeCall
    /\ mem = EmptyMemory
    /\ mcall = NoMergeCall
    /\ tun = NoTunnel
    /\ client = NoClient
    /\ tasks = NoTasks

SpecIngestor == InitIngestor /\ [][NextIngestor]_vars

\* The manager under targeted lifecycle calls and webhook deliveries, with
\* one startAll at a time whose start() calls all succeed.
NextManager ==
    \/ StartAllBegin(NoFailures, 1)
    \/ StartAllResume(NoFailures)
    \/ StopAllBegin(NoFailures)
    \/ StopAllResume
    \/ \E pair \in LifecyclePairs : StartOne(pair[1], pair[2])
    \/ \E pair \in LifecyclePairs : StopOne(pair[1], pair[2])
    \/ \E pair \in LifecyclePairs : RestartOne(pair[1], pair[2])
    \/ \E path \in WebhookPaths : DeliverWebhook(path)

\* new IngestorManager(config): an empty registry
InitManager ==
    /\ rb = RingBuffer(1)
    /\ pushed = <<>>
    /\ everCleared = FALSE
    /\ ing = IdleIngestor
    /\ now = 0
    /\ issued = <<>>
    /\ stream = "none"
    /\ last = NoCall
    /\ ingestors = <<>>
    /\ instances = EmptyPool
    /\ mlast = NoManagerCall
    /\ sreq = NoStripeRequest
    /\ sres = NoVerifyCall
    /\ sclock = StripeEpochMs
    /\ stripe = IdleStripe
    /\ slast = NoStripeCall
    /\ mem = EmptyMemory
    /\ mcall = NoMergeCall
    /\ tun = NoTunnel
    /\ client = NoClient
    /\ tasks = NoTasks

SpecManager == InitManager /\ [][NextManager]_vars

NextPoll ==
    \/ \E pair \in PollPairs : StartOne(pair[1], pair[2])
    \/ GatewayDispatch
    \/ PollDeliver("github")
    \/ \E callerAlias \in PollCallers, afterId \in PollCursors :
           GetAllEvents(callerAlias, afterId)

\* new IngestorManager(config): an empty registry, the clock at 0
InitPoll ==
    /\ rb = RingBuffer(1)
    /\ pushed = <<>>
    /\ everCleared = FALSE
    /\ ing = IdleIngestor
    /\ now = 0
    /\ issued = <<>>
    /\ stream = "none"
    /\ last = NoCall
    /\ ingestors = <<>>
    /\ instances = EmptyPool
    /\ mlast = NoManagerCall
    /\ sreq = NoStripeRequest
    /\ sres = NoVerifyCall
    /\ sclock = StripeEpochMs
    /\ stripe = IdleStripe
    /\ slast = NoStripeCall
    /\ mem = EmptyMemory
    /\ mcall = NoMergeCall
    /\ tun = NoTunnel
    /\ client = NoClient
    /\ tasks = NoTasks

SpecPoll == InitPoll /\ [][NextPoll]_vars

NextPollClient ==
    \/ \E pair \in ClientPairs : StartOne(pair[1], pair[2])
    \/ GatewayDispatch
    \/ PollDeliver("github")
    \/ ClientPollAll

\* new IngestorManager(config), and a client of caller a that has not polled
InitPollClient ==
    /\ rb = RingBuffer(1)
    /\ pushed = <<>>
    /\ everCleared = FALSE
    /\ ing = IdleIngestor
    /\ now = 0
    /\ issued = <<>>
    /\ stream = "none"
    /\ last = NoCall
    /\ ingestors = <<>>
    /\ instances = EmptyPool
    /\ mlast = NoManagerCall
    /\ sreq = NoStripeRequest
    /\ sres = NoVerifyCall
    /\ sclock = StripeEpochMs
    /\ stripe = IdleStripe
    /\ slast = NoStripeCall
    /\ mem = EmptyMemory
    /\ mcall = NoMergeCall
    /\ tun = NoTunnel
    /\ client = NewClient(CallerA)
    /\ tasks = NoTasks

SpecPollClient == InitPollClient /\ [][NextPollClient]_vars

NextFollow ==
    \/ PushEventCall
    \/ HandleWebhookCall
    \/ ClientGetEvents
    \/ ClearFollowed

\* new GitHubWebhookIngestor('github', {}, { path: 'github' }, bufferSize),
\* and a client that has not polled
InitFollow ==
    /\ rb = RingBuffer(1)
    /\ pushed = <<>>
    /\ everCleared = FALSE
    /\ \E bufferSize \in 1 .. MaxIngestorBuffer :
          ing = GitHubWebhookIngestor("github", <<>>,
                    [path |-> "github", signatureHeader |-> UNDEF,
                     signatureSecret |-> UNDEF], bufferSize)
    /\ now = 0
    /\ issued = <<>>
    /\ stream = "none"
    /\ last = NoCall
    /\ ingestors = <<>>
    /\ instances = EmptyPool
    /\ mlast = NoManagerCall
    /\ sreq = NoStripeRequest
    /\ sres = NoVerifyCall
    /\ sclock = StripeEpochMs
    /\ stripe = IdleStripe
    /\ slast = NoStripeCall
    /\ mem = EmptyMemory
    /\ mcall = NoMergeCall
    /\ tun = NoTunnel
    /\ client = NewFollower
    /\ tasks = NoTasks

SpecFollow == InitFollow /\ [][NextFollow]_vars

\* startAll and stopAll calls overlapping at their awaits, with start() and
\* stop() calls that fail, while the gateway delivers events.
NextInterleave ==
    \/ StartAllBegin(StartFailures, MaxStartAlls)
    \/ StartAllResume(StartFailures)
    \/ StopAllBegin(StopFailures)
    \/ StopAllResume
    \/ GatewayDispatch

\* new IngestorManager(config): an empty registry, no call under way
InitInterleave ==
    /\ rb = RingBuffer(1)
    /\ pushed = <<>>
    /\ everCleared = FALSE
    /\ ing = IdleIngestor
    /\ now = 0
    /\ issued = <<>>
    /\ stream = "none"
    /\ last = NoCall
    /\ ingestors = <<>>
    /\ instances = EmptyPool
    /\ mlast = NoManagerCall
    /\ sreq = NoStripeRequest
    /\ sres = NoVerifyCall
    /\ sclock = StripeEpochMs
    /\ stripe = IdleStripe
    /\ slast = NoStripeCall
    /\ mem = EmptyMemory
    /\ mcall = NoMergeCall
    /\ tun = NoTunnel
    /\ client = NoClient
    /\ tasks = NoTasks

SpecInterleave == InitInterleave /\ [][NextInterleave]_vars

NextStripeVerify ==
    \/ StripeVerify
    \/ StripeTick

\* The arguments of the calls are drawn; nothing has been called yet.
InitStripeVerify ==
    /\ rb = RingBuffer(1)
    /\ pushed = <<>>
    /\ everCleared = FALSE
    /\ ing = IdleIngestor
    /\ now = 0
    /\ issued = <<>>
    /\ stream = "none"
    /\ last = NoCall
    /\ ingestors = <<>>
    /\ instances = EmptyPool
    /\ mlast = NoManagerCall
    /\ sreq \in StripeRequests
    /\ sres = NoVerifyCall
    /\ sclock = StripeEpochMs
    /\ stripe = IdleStripe
    /\ slast = NoStripeCall
    /\ mem = EmptyMemory
    /\ mcall = NoMergeCall
    /\ tun = NoTunnel
    /\ client = NoClient
    /\ tasks = NoTasks

SpecStripeVerify == InitStripeVerify /\ [][NextStripeVerify]_vars

StripeHandleWebhookCall ==
    \E rawBody \in StripeBodies : \E headers \in StripeDeliveryHeaders(rawBody) :
        StripeHandleWebhook(headers, rawBody)

NextStripe ==
    \/ StripeHandleWebhookCall
    \/ StripeTick

\* new StripeWebhookIngestor('stripe', secrets, webhookConfig, bufferSize)
InitStripe ==
    /\ rb = RingBuffer(1)
    /\ pushed = <<>>
    /\ everCleared = FALSE
    /\ ing = IdleIngestor
    /\ now = 0
    /\ issued = <<>>
    /\ stream = "none"
    /\ last = NoCall
    /\ ingestors = <<>>
    /\ instances = EmptyPool
    /\ mlast = NoManagerCall
    /\ sreq = NoStripeRequest
    /\ sres = NoVerifyCall
    /\ sclock = StripeEpochMs
    /\ \E s \in StripeSetups, bufferSize \in 1 .. MaxStripeBuffer :
          stripe = StripeWebhookIngestor("stripe", s.secrets,
                       [path |-> "stripe", signatureHeader |-> s.header,
                        signatureSecret |-> s.secret], bufferSize)
    /\ slast = NoStripeCall
    /\ mem = EmptyMemory
    /\ mcall = NoMergeCall
    /\ tun = NoTunnel
    /\ client = NoClient
    /\ tasks = NoTasks

SpecStripe == InitStripe /\ [][NextStripe]_vars

NextMerge == Merge

\* A template is in memory and the arguments of the call are drawn.
InitMerge ==
    /\ rb = RingBuffer(1)
    /\ pushed = <<>>
    /\ everCleared = FALSE
    /\ ing = IdleIngestor
    /\ now = 0
    /\ issued = <<>>
    /\ stream = "none"
    /\ last = NoCall
    /\ ingestors = <<>>
    /\ instances = EmptyPool
    /\ mlast = NoManagerCall
    /\ sreq = NoStripeRequest
    /\ sres = NoVerifyCall
    /\ sclock = StripeEpochMs
    /\ stripe = IdleStripe
    /\ slast = NoStripeCall
    /\ \E config \in MergeTemplates, overrides \in MergeOverrides :
           /\ mem = Load(config, overrides).mem
           /\ mcall = [NoMergeCall EXCEPT !.overrides = Load(config, overrides).overrides]
    /\ tun = NoTunnel
    /\ client = NoClient
    /\ tasks = NoTasks

SpecMerge == InitMerge /\ [][NextMerge]_vars

NextConstruct ==
    \/ Construct
    \/ Start
    \/ Stop

InitConstruct ==
    /\ rb = RingBuffer(1)
    /\ pushed = <<>>
    /\ everCleared = FALSE
    /\ \E via \in {"constructor", "factory"}, setup \in IngestorSetups,
          bufferSizeArg \in BufferSizeArgs :
          /\ ing = constructIngestor(via, setup, bufferSizeArg)
          /\ last = Constructed(via, bufferSizeArg)
    /\ now = 0
    /\ issued = <<>>
    /\ stream = "none"
    /\ ingestors = <<>>
    /\ instances = EmptyPool
    /\ mlast = NoManagerCall
    /\ sreq = NoStripeRequest
    /\ sres = NoVerifyCall
    /\ sclock = StripeEpochMs
    /\ stripe = IdleStripe
    /\ slast = NoStripeCall
    /\ mem = EmptyMemory
    /\ mcall = NoMergeCall
    /\ tun = NoTunnel
    /\ client = NoClient
    /\ tasks = NoTasks

SpecConstruct == InitConstruct /\ [][NextConstruct]_vars

\* The exits of the tunnel process: with code 0 or 1, or by a signal.
TunnelExits ==
    {[code |-> 0], [code |-> 1], [signal |-> "SIGTERM"], [signal |-> "SIGKILL"]}

NextTunnel ==
    \/ \E timeoutArg \in TunnelTimeouts : StartTunnel(timeoutArg)
    \/ VersionError
    \/ \E code \in {0, 1, ENOENT} : VersionClose(code)
    \/ PreflightResume
    \/ \E chunk \in TunnelChunks : TunnelData(chunk)
    \/ TunnelTimeout
    \/ \E spawnFailed \in BOOLEAN : TunnelError(spawnFailed)
    \/ \E how \in TunnelExits : TunnelExit(how)
    \/ TunnelClose
    \/ Stop_Tunnel
    \/ KillTimerFires
    \/ TunnelTick

InitTunnel ==
    /\ rb = RingBuffer(1)
    /\ pushed = <<>>
    /\ everCleared = FALSE
    /\ ing = IdleIngestor
    /\ now = 0
    /\ issued = <<>>
    /\ stream = "none"
    /\ last = NoCall
    /\ ingestors = <<>>
    /\ instances = EmptyPool
    /\ mlast = NoManagerCall
    /\ sreq = NoStripeRequest
    /\ sres = NoVerifyCall
    /\ sclock = StripeEpochMs
    /\ stripe = IdleStripe
    /\ slast = NoStripeCall
    /\ mem = EmptyMemory
    /\ mcall = NoMergeCall
    /\ tun = NoTunnel
    /\ client = NoClient
    /\ tasks = NoTasks

SpecTunnel == InitTunnel /\ [][NextTunnel]_vars

\* A child that has received SIGTERM or SIGKILL terminates.
ExitOnSignal ==
    \E how \in TunnelExits : "signal" \in DOMAIN how /\ TunnelExit(how)

\* The tunnel with a live child: one that was sent a signal exits, one that
\* has exited emits 'close', a timer that is due fires, and startTunnel
\* resumes once the promise it awaits is resolved.
SpecTunnelLive ==
    /\ InitTunnel
    /\ [][NextTunnel]_vars
    /\ WF_vars(PreflightResume)
    /\ WF_vars(ExitOnSignal)
    /\ WF_vars(TunnelClose)
    /\ WF_vars(KillTimerFires)

-----------------------------------------------------------------------------
(* Claims about the ring buffer (SpecRing) *)

\* The last n elements of a sequence, in order.
LastN(seq, n) == [j \in 1 .. n |-> seq[Len(seq) - n + j]]

\* C2: for a buffer of capacity c that was never cleared and has received the
\* pushes p0..pn, toArray() is exactly the last min(n+1, c) pushed items,
\* p_{max(0,n+1-c)} .. p_n, oldest first.
C2_ToArrayIsLastPushes ==
    ~everCleared => toArray(rb) = LastN(pushed, Min(Len(pushed), rb.capacity))

\* C2 witness: a buffer of capacity 2 or more that has wrapped around, more
\* than once over, without ever being cleared.
C2_Witness ==
    /\ ~everCleared
    /\ rb.capacity >= 2
    /\ Len(pushed) > 2 * rb.capacity
    /\ toArray(rb)[1] # pushed[1]

\* The stored items whose id is a number greater than afterId, in toArray order.
NumericAfter(r, afterId) ==
    SelectSeq(toArray(r), LAMBDA item : "id" \in DOMAIN item /\ item.id > afterId)

\* The greatest numeric id stored in the buffer (-1 when there is none).
GreatestId(r) ==
    LET ids == {toArray(r)[k].id : k \in {j \in 1 .. size(r) : "id" \in DOMAIN toArray(r)[j]}}
    IN  IF ids = {} THEN -1 ELSE CHOOSE m \in ids : \A n \in ids : n <= m

\* C3: for every buffer state and every cursor, since(afterId) is exactly the
\* stored items whose id is a number greater than afterId, in toArray()'s
\* oldest-first order; no item without a numeric id is returned; and a cursor
\* at or past the greatest stored id yields the empty list.
C3_SinceIsNumericIdsAfter ==
    \A afterId \in RingCursors :
        /\ since(rb, afterId) = NumericAfter(rb, afterId)
        /\ \A k \in 1 .. Len(since(rb, afterId)) :
               TypeofId(since(rb, afterId)[k]) = "number"
        /\ (afterId >= GreatestId(rb) => since(rb, afterId) = <<>>)

\* C3 witness: a wrapped buffer that holds an item with a string id, an item
\* with an id equal to the cursor 1 and an item with a greater id, so that
\* since(1) returns some but not all of the stored items.
C3_Witness ==
    /\ Len(pushed) > rb.capacity
    /\ \E k \in 1 .. size(rb) : TypeofId(toArray(rb)[k]) = "string"
    /\ \E k \in 1 .. size(rb) : toArray(rb)[k] = [id |-> 1]
    /\ since(rb, 1) # <<>>
    /\ Len(since(rb, 1)) < size(rb)

\* C4: in every reachable state size <= capacity and size = min(k, capacity),
\* k being the pushes since construction or the last clear(); head has
\* advanced modulo capacity by k; and after a push at capacity the slot before
\* head holds the newest item and the slot at head the oldest one kept.
C4_SizeSaturatesAtCapacity ==
    LET k == Len(pushed)
        c == rb.capacity
    IN  /\ size(rb) <= c
        /\ size(rb) = Min(k, c)
        /\ rb.head = k % c
        /\ (k > c => /\ rb.buffer[(rb.head + c - 1) % c] = pushed[k]
                     /\ rb.buffer[rb.head] = pushed[k - c + 1]
                     /\ size(rb) = c)

\* C4 witness: a push at capacity, after a clear(), into a buffer of capacity
\* 2 or more.
C4_Witness ==
    /\ everCleared
    /\ rb.capacity >= 2
    /\ Len(pushed) > rb.capacity

-----------------------------------------------------------------------------
(* Claims about one ingestor (SpecIngestor) *)

\* C1: within one ingestor every pushEvent assigns an id strictly greater than
\* every id assigned before, whatever pushes, evictions and clear() calls came
\* in between: the ids assigned so far are strictly increasing, and the counter
\* the next id comes from is above all of them (never reset, no id reused).
C1_IdsStrictlyIncrease ==
    /\ \A j, k \in 1 .. Len(issued) : j < k => issued[j] < issued[k]
    /\ \A k \in 1 .. Len(issued) : issued[k] < ing.totalEventsReceived

\* C1 witness: an event was evicted, the ring was then cleared mid-stream, and
\* a pushEvent after that clear has assigned a further id.
C1_Witness ==
    /\ stream = "resumed"
    /\ Len(issued) >= 3
    /\ last.op \in {"pushEvent", "handleWebhook"}

\* A sequence of events is in strictly ascending id order.
AscendingIds(events) ==
    \A j, k \in 1 .. Len(events) : j < k => events[j].id < events[k].id

\* C5: getEvents(afterId) is the full buffer when afterId < 0 and otherwise
\* exactly the buffered events with id > afterId; either way the result is in
\* strictly ascending id order.
C5_GetEventsByCursor ==
    \A afterId \in Cursors :
        /\ (afterId < 0 => getEvents(ing, afterId) = toArray(ing.buffer))
        /\ (afterId >= 0 =>
               getEvents(ing, afterId) =
                   SelectSeq(toArray(ing.buffer), LAMBDA e : e.id > afterId))
        /\ AscendingIds(getEvents(ing, afterId))

\* C5 witness: the ring has wrapped, still holds event 0's successors, and the
\* cursor 1 returns some but not all of two or more buffered events.
C5_Witness ==
    /\ ing.totalEventsReceived > ing.buffer.capacity
    /\ size(ing.buffer) >= 2
    /\ getEvents(ing, 1) # <<>>
    /\ Len(getEvents(ing, 1)) < Len(getEvents(ing, -1))

\* A step in which pushEvent ran (directly or from handleWebhook): it is the
\* only code that extends the id history.
PushEventRan == Len(issued') = Len(issued) + 1

\* What one pushEvent call must have done to the ingestor.
PushEventEffect ==
    LET before == toArray(ing.buffer)
        after  == toArray(ing'.buffer)
        e      == after[Len(after)]
        kept   == IF size(ing.buffer) = ing.buffer.capacity THEN Tail(before) ELSE before
    IN  /\ after = Append(kept, e)
        /\ e.id = ing.totalEventsReceived
        /\ e.source = ing.connectionAlias
        /\ ing'.totalEventsReceived = ing.totalEventsReceived + 1
        /\ ing'.lastEventAt = e.receivedAt
        /\ getStatus(ing').bufferedEvents = Len(after)

\* C6: a newly constructed ingestor reports bufferedEvents 0,
\* totalEventsReceived 0 and lastEventAt null; each pushEvent appends exactly
\* one event whose id is totalEventsReceived before the call (so the first id
\* is 0) and whose source is the connection alias, increments
\* totalEventsReceived by exactly 1 and sets lastEventAt to the event's
\* receivedAt.
C6_PushEventEffect ==
    /\ getStatus(ing).bufferedEvents = 0
    /\ getStatus(ing).totalEventsReceived = 0
    /\ getStatus(ing).lastEventAt = Null
    /\ [][PushEventRan => PushEventEffect]_vars

\* C6 witness: a direct pushEvent call has just buffered an event into a full
\* ring, after the event with id 0.
C6_Witness ==
    /\ last.op = "pushEvent"
    /\ Len(issued) >= 2
    /\ issued[1] = 0
    /\ ing.totalEventsReceived > ing.buffer.capacity
    /\ ing.lastEventAt # Null

\* Both, neither, or one of the two signature fields of the webhook config.
HeaderConfigured == Truthy(ing.signatureHeader)
SecretConfigured == Truthy(ing.signatureSecretName)

\* C8 as stated: verification is skipped if and only if both signatureHeader
\* and signatureSecret are absent; whenever at least one of them is
\* configured, a webhook is accepted only when its signature verifies.
C8_SkippedIffBothAbsent ==
    last.op = "handleWebhook" =>
        /\ (~last.checked <=> (~HeaderConfigured /\ ~SecretConfigured))
        /\ ((HeaderConfigured \/ SecretConfigured) /\ last.accepted => last.genuine)

\* C8 as amended: verification is performed if and only if both
\* signatureHeader and signatureSecret are configured (non-empty); if either
\* is absent it is skipped entirely. When both are configured a webhook is
\* accepted only if it carries the HMAC of its body under the resolved secret.
C8_VerifiedIffBothConfigured ==
    last.op = "handleWebhook" =>
        /\ (last.checked <=> (HeaderConfigured /\ SecretConfigured))
        /\ (HeaderConfigured /\ SecretConfigured /\ last.accepted => last.genuine)

\* C8 witness: with only the signature header configured, a request without a
\* valid signature has been accepted and buffered.
C8_Witness ==
    /\ last.op = "handleWebhook"
    /\ HeaderConfigured /\ ~SecretConfigured
    /\ last.accepted /\ ~last.genuine /\ ~last.checked
    /\ size(ing.buffer) >= 1

\* C9: a handleWebhook call that returns accepted:false leaves the buffer,
\* totalEventsReceived and lastEventAt unchanged; one that returns
\* accepted:true pushes exactly one event into the ring.
C9_BufferedIffAccepted ==
    [][last'.op = "handleWebhook" =>
          IF last'.accepted
          THEN PushEventRan /\ PushEventEffect
          ELSE /\ ing'.buffer = ing.buffer
               /\ ing'.totalEventsReceived = ing.totalEventsReceived
               /\ ing'.lastEventAt = ing.lastEventAt
               /\ issued' = issued]_vars

\* C9 witness: a request was rejected for its signature by an ingestor that
\* had already buffered an accepted one.
C9_Witness ==
    /\ last.op = "handleWebhook"
    /\ ~last.accepted
    /\ last.reason = "Signature verification failed"
    /\ size(ing.buffer) >= 1
    /\ ing.lastEventAt # Null

\* The signature secret as handleWebhook resolves it.
ResolvedSecret == SecretLookup(ing.secrets, ing.signatureSecretName)

\* The resolved secrets hold no value, or the empty one, under the
\* configured name.
NamedSecretMissing ==
    \/ ing.signatureSecretName \notin DOMAIN ing.secrets
    \/ ing.secrets[ing.signatureSecretName] = ""

\* C10, as stated: when verification is configured but the named secret is
\* missing from (or empty in) the resolved secrets, every handleWebhook call
\* returns {accepted:false, reason:"Signature secret not configured"},
\* whatever its headers and body: no webhook is accepted.
C10_SecretNotConfigured ==
    (HeaderConfigured /\ SecretConfigured /\ NamedSecretMissing
        /\ last.op = "handleWebhook") =>
            /\ ~last.accepted
            /\ ~last.threw
            /\ last.reason = "Signature secret not configured"

\* C10 witness: the secret resolves to the empty string and the rejected
\* request carried a valid HMAC of its body under that empty secret.
C10_Witness ==
    /\ HeaderConfigured /\ SecretConfigured
    /\ ResolvedSecret = ""
    /\ last.op = "handleWebhook"
    /\ last.genuine
    /\ last.reason = "Signature secret not configured"

-----------------------------------------------------------------------------
(* Claims about the manager (SpecManager) *)

\* The ingestor objects created for a pair.
CreatedFor(callerAlias, connectionAlias) ==
    {id \in 1 .. Len(instances) :
        /\ instances[id] # NoInstance
        /\ instances[id].caller = callerAlias
        /\ instances[id].ing.connectionAlias = connectionAlias}

\* The objects the registry holds.
Registered == {ingestors[k].id : k \in 1 .. Len(ingestors)}

\* C7: after any sequence of startAll, startOne, stopOne, restartOne and
\* stopAll calls, also when the other calls run while startAll or stopAll
\* waits, the manager holds at most one ingestor instance for each
\* (caller, connection) pair: the registry has one entry per key and at most
\* one registered object was created for the pair; and a start (a step of
\* startAll, a startOne) that finds a key registered leaves that entry and
\* its object as they are, creating no second instance.
C7_AtMostOneInstancePerPair ==
    /\ [](/\ \A j, k \in 1 .. Len(ingestors) :
                 ingestors[j].key = ingestors[k].key => j = k
          /\ \A c \in CallArgsCallers, n \in CallArgsConnections \cup {ConnD} :
                 Cardinality(CreatedFor(c, n) \cap Registered) <= 1)
    /\ [][mlast'.op \in {"startAll awaits", "startAll", "startOne"} =>
              \A k \in 1 .. Len(heap.ingestors) :
                  LET key == heap.ingestors[k].key
                  IN  /\ mapHas(ingestors', key)
                      /\ mapGet(ingestors', key) = heap.ingestors[k].id
                      /\ instances'[heap.ingestors[k].id]
                             = heap.instances[heap.ingestors[k].id]
       ]_vars

\* C7 witness: startOne has just answered for a pair whose registered
\* ingestor had already received a webhook (so it is not a new object), while
\* the other key of the registry holds an ingestor too.
C7_Witness ==
    /\ mlast.op = "startOne"
    /\ mlast.success
    /\ has(heap, mlast.caller, mlast.connection)
    /\ Len(ingestors) = 2
    /\ instances[mapGet(ingestors, Key(mlast.caller, mlast.connection))]
           .ing.totalEventsReceived >= 1

-----------------------------------------------------------------------------
(* Claims about Stripe signature verification (SpecStripeVerify) *)

\* The header of the call parsed, and whether it is well-formed.
VerifyParsed == parseStripeSignatureHeader(sreq.header)
VerifyWellFormed == VerifyParsed # Null

\* The tolerance in force and the distance in seconds between the clock
\* reading of the call and the header's timestamp.
VerifyTolerance == IF sreq.tolerance.given THEN sreq.tolerance.value ELSE 300
VerifyAge ==
    LET nowS == sres.nowMs \div 1000
        t == VerifyParsed.timestamp
    IN  IF nowS >= t THEN nowS - t ELSE t - nowS

\* Some v1 value of the header is the hex digest of HMAC-SHA256(secret,
\* "${t}.${rawBody}").
VerifySomeV1Equals ==
    \E k \in 1 .. Len(VerifyParsed.signatures) :
        VerifyParsed.signatures[k] =
            Hex(HmacSha256(sreq.secret,
                           signedPayload(VerifyParsed.timestamp, sreq.rawBody)), "")

\* C11: for a well-formed header, verifyStripeSignature rejects with
\* "Timestamp outside tolerance window" exactly when tolerance > 0 and
\* |now - t| > tolerance (default 300 s, a timestamp exactly `tolerance`
\* seconds away is not rejected for its age), whether or not the signature
\* is valid; with tolerance 0 nothing is rejected for its timestamp.
C11_TimestampWindow ==
    (sres.called /\ VerifyWellFormed) =>
        LET tooOld == sres.result.reason = "Timestamp outside tolerance window"
        IN  /\ tooOld <=> (VerifyTolerance > 0 /\ VerifyAge > VerifyTolerance)
            /\ (tooOld => ~sres.result.valid)
            /\ (VerifyTolerance = 0 => ~tooOld)

\* C11 witness: under the default tolerance a correctly signed delivery was
\* rejected for being 301 seconds old, the clock having moved since it was
\* exactly 300 seconds old.
C11_Witness ==
    /\ sres.called
    /\ VerifyWellFormed
    /\ ~sreq.tolerance.given
    /\ VerifyAge = 301
    /\ sres.nowMs > StripeEpochMs
    /\ VerifySomeV1Equals
    /\ sres.result = [valid |-> FALSE, reason |-> "Timestamp outside tolerance window"]

\* C12 as stated: for a well-formed header that passes the timestamp check,
\* verifyStripeSignature returns valid:true if and only if at least one v1
\* signature of the header equals HMAC-SHA256(secret, "${t}.${rawBody}");
\* otherwise (wrong secret, tampered body, non-hex or wrong-length
\* signature) it returns valid:false, "Signature verification failed".
C12_ValidIffSomeV1Equals ==
    (/\ sres.called
     /\ VerifyWellFormed
     /\ sres.result.reason # "Timestamp outside tolerance window") =>
        /\ sres.result.valid <=> VerifySomeV1Equals
        /\ (~VerifySomeV1Equals =>
               sres.result = [valid |-> FALSE, reason |-> "Signature verification failed"])

-----------------------------------------------------------------------------
(* Claims about the Stripe ingestor (SpecStripe) *)

\* C13: when StripeWebhookIngestor.handleWebhook accepts a request, a
\* subsequent getEvents yields exactly one new event: its eventType is the
\* parsed body's type ("unknown" when absent), its source the connection
\* alias, and its data {eventId: body.id, type, payload: the parsed body}.
C13_AcceptedStripeEvent ==
    [][(slast'.op = "handleWebhook" /\ slast'.accepted) =>
          LET before == getEvents(stripe, -1)
              cursor == IF before = <<>> THEN -1 ELSE before[Len(before)].id
              new    == getEvents(stripe', cursor)
              body   == JSONParse(slast'.rawBody)
              type   == IF "type" \in DOMAIN body.value THEN body.value.type ELSE "unknown"
          IN  /\ body.ok
              /\ Len(new) = 1
              /\ new[1].eventType = type
              /\ new[1].source = stripe.connectionAlias
              /\ new[1].data = [eventId |-> body.value.id, type |-> type,
                                payload |-> body.value]
              /\ Len(getEvents(stripe', -1)) <= Len(before) + 1]_vars

\* C13 witness: a verifying ingestor has accepted a signed delivery whose
\* body has no type, after an earlier event, and buffered it as "unknown".
C13_Witness ==
    /\ slast.op = "handleWebhook"
    /\ slast.accepted
    /\ slast.rawBody = StripeBodyNoType
    /\ verificationConfigured(stripe)
    /\ stripe.totalEventsReceived = 2
    /\ getEvents(stripe, 0) # <<>>
    /\ getEvents(stripe, 0)[1].eventType = "unknown"

-----------------------------------------------------------------------------
(* Claims about the targeted lifecycle calls (SpecManager) *)

\* The ingestor object the registry holds for a pair.
RegisteredFor(h, callerAlias, connectionAlias) ==
    mapGet(h.ingestors, Key(callerAlias, connectionAlias))

\* The objects of a heap that were created for a pair and never stopped.
InService(h, callerAlias, connectionAlias) ==
    {id \in 1 .. Len(h.instances) :
        /\ h.instances[id] # NoInstance
        /\ ~h.instances[id].stopCalled
        /\ h.instances[id].caller = callerAlias
        /\ h.instances[id].ing.connectionAlias = connectionAlias}

\* The configuration read directly: the caller is configured, the connection
\* is among the caller's, the connection's route has an ingestor stanza.
ConfigHasCaller(callerAlias) ==
    \E i \in 1 .. Len(ConfigCallers) : ConfigCallers[i].alias = callerAlias

ConfigEnables(callerAlias, connectionAlias) ==
    \E i \in 1 .. Len(ConfigCallers) :
        /\ ConfigCallers[i].alias = callerAlias
        /\ \E j \in 1 .. Len(ConfigCallers[i].connections) :
               ConfigCallers[i].connections[j] = connectionAlias

\* C14: startOne(caller, connection) on a pair whose ingestor is registered
\* answers success:true with that ingestor's current state and leaves the
\* registry and every ingestor (buffer, counters, state) as they were; a
\* second startOne answers the same.
C14_StartOneIdempotent ==
    \A pair \in CallPairs :
        has(heap, pair[1], pair[2]) =>
            LET r == startOne(heap, pair[1], pair[2])
            IN  /\ r.success
                /\ r.connection = pair[2]
                /\ r.state = heap.instances[RegisteredFor(heap, pair[1], pair[2])].ing.state
                /\ r.heap = heap
                /\ startOne(r.heap, pair[1], pair[2]) = r

\* C14 witness: startOne has answered success with state connected for a pair
\* whose registered ingestor holds an event received before the call.
C14_Witness ==
    /\ mlast.op = "startOne"
    /\ mlast.success
    /\ mlast.state = "connected"
    /\ has(heap, mlast.caller, mlast.connection)
    /\ getEvents(instances[RegisteredFor(heap, mlast.caller, mlast.connection)].ing, -1) # <<>>

\* C15: startOne(caller, connection) answers success:false with the requested
\* connection and "Unknown caller" for a caller that is not configured,
\* "Caller does not have connection" for a connection that is not among the
\* caller's, "does not have an ingestor" for a connection without an ingestor
\* stanza; in each case the registry is unchanged.
C15_StartOneErrors ==
    \A pair \in CallPairs :
        LET r == startOne(heap, pair[1], pair[2])
            expected ==
                IF ~ConfigHasCaller(pair[1]) THEN "Unknown caller"
                ELSE IF ~ConfigEnables(pair[1], pair[2])
                THEN "Caller does not have connection"
                ELSE IF RouteIngestor(pair[2]).type = "none"
                THEN "does not have an ingestor"
                ELSE UNDEF
        IN  expected # UNDEF =>
                /\ ~r.success
                /\ r.connection = pair[2]
                /\ r.error = expected
                /\ r.heap.ingestors = heap.ingestors
                /\ r.heap.instances = heap.instances

\* C15 witness: with ingestors registered, startOne has refused a connection
\* of the caller that has no ingestor stanza.
C15_Witness ==
    /\ mlast.op = "startOne"
    /\ ~mlast.success
    /\ mlast.connection = ConnN
    /\ mlast.error = "does not have an ingestor"
    /\ Len(ingestors) = 2

\* C16: stopOne(caller, connection) answers success:false, "No ingestor
\* running", and changes nothing when the pair is not registered; otherwise
\* it stops the registered ingestor, answers success:true with state stopped
\* and removes the entry, so that has(caller, connection) is false and no
\* getWebhookIngestors reports the ingestor; other entries stay.
C16_StopOne ==
    \A pair \in CallPairs :
        LET r   == stopOne(heap, pair[1], pair[2])
            key == Key(pair[1], pair[2])
        IN  IF ~has(heap, pair[1], pair[2])
            THEN /\ ~r.success
                 /\ r.connection = pair[2]
                 /\ r.error = "No ingestor running"
                 /\ r.heap = heap
            ELSE LET id == RegisteredFor(heap, pair[1], pair[2])
                 IN  /\ r.success
                     /\ r.connection = pair[2]
                     /\ r.state = "stopped"
                     /\ r.heap.instances[id].stopCalled
                     /\ r.heap.instances[id].ing.state = "stopped"
                     /\ ~has(r.heap, pair[1], pair[2])
                     /\ \A path \in WebhookPaths :
                            \A k \in 1 .. Len(getWebhookIngestors(r.heap, path)) :
                                getWebhookIngestors(r.heap, path)[k] # id
                     /\ \A k \in 1 .. Len(heap.ingestors) :
                            heap.ingestors[k].key # key =>
                                /\ mapHas(r.heap.ingestors, heap.ingestors[k].key)
                                /\ mapGet(r.heap.ingestors, heap.ingestors[k].key)
                                       = heap.ingestors[k].id
                                /\ r.heap.instances[heap.ingestors[k].id]
                                       = heap.instances[heap.ingestors[k].id]

\* C16 witness: stopOne has stopped and removed a webhook ingestor that had
\* received an event, while another ingestor stays registered.
C16_Witness ==
    /\ mlast.op = "stopOne"
    /\ mlast.success
    /\ mlast.state = "stopped"
    /\ ~has(heap, mlast.caller, mlast.connection)
    /\ Len(ingestors) = 1
    /\ getWebhookIngestors(heap, "github") = <<>>
    /\ \E id \in 1 .. Len(instances) :
           /\ instances[id] # NoInstance
           /\ instances[id].stopCalled
           /\ instances[id].ing.ingestorType = "webhook"
           /\ instances[id].ing.state = "stopped"
           /\ instances[id].ing.totalEventsReceived = 1

\* C17: restartOne(caller, connection) on a registered pair stops the
\* registered ingestor and starts a new one for the pair: success:true,
\* has(caller, connection) afterwards, at most one ingestor in service for
\* the pair; on an unregistered pair its answer and effect are startOne's.
C17_RestartOne ==
    \A pair \in CallPairs :
        LET r == restartOne(heap, pair[1], pair[2])
        IN  IF has(heap, pair[1], pair[2])
            THEN LET old == RegisteredFor(heap, pair[1], pair[2])
                     new == RegisteredFor(r.heap, pair[1], pair[2])
                 IN  /\ r.success
                     /\ r.connection = pair[2]
                     /\ has(r.heap, pair[1], pair[2])
                     /\ new # old
                     /\ r.heap.instances[old].stopCalled
                     /\ r.heap.instances[old].ing.state = "stopped"
                     /\ r.heap.instances[new].caller = pair[1]
                     /\ r.heap.instances[new].ing.connectionAlias = pair[2]
                     /\ r.heap.instances[new].ing.state = "connected"
                     /\ r.state = "connected"
                     /\ InService(r.heap, pair[1], pair[2]) = {new}
            ELSE r = startOne(heap, pair[1], pair[2])

\* C17 witness: restartOne has answered success for a pair whose former
\* ingestor, stopped by the call, had received an event; the ingestor now
\* registered for the pair is a new one.
C17_Witness ==
    /\ mlast.op = "restartOne"
    /\ mlast.success
    /\ has(heap, mlast.caller, mlast.connection)
    /\ instances[RegisteredFor(heap, mlast.caller, mlast.connection)]
           .ing.totalEventsReceived = 0
    /\ \E id \in 1 .. Len(instances) :
           /\ instances[id] # NoInstance
           /\ instances[id].stopCalled
           /\ instances[id].caller = mlast.caller
           /\ instances[id].ing.connectionAlias = mlast.connection
           /\ instances[id].ing.totalEventsReceived = 1

\* C18: stopAll() invokes stop() on every ingestor registered when it is
\* called, whether or not another stop() throws (an ingestor whose stop()
\* did not throw is then in state stopped), and when it resolves the
\* registry is empty: getEvents, getAllEvents and getStatuses then return []
\* for every caller.
C18_StopAllStopsEveryone ==
    [][/\ mlast'.op = "stopAll awaits" =>
              /\ ingestors' = heap.ingestors
              /\ \A k \in 1 .. Len(heap.ingestors) :
                     LET before  == heap.instances[heap.ingestors[k].id]
                         stopped == instances'[heap.ingestors[k].id]
                     IN  /\ stopped # NoInstance
                         /\ stopped.stopCalled
                         /\ \/ stopped.ing = stop(before.ing)
                            \/ /\ stopped.ing.ingestorType = "websocket"
                               /\ stopped.ing = before.ing
       /\ mlast'.op = "stopAll" =>
              /\ ingestors' = <<>>
              /\ \A callerAlias \in CallArgsCallers :
                     /\ getAllEvents(heap', callerAlias, -1) = <<>>
                     /\ getStatuses(heap', callerAlias) = <<>>
                     /\ \A connectionAlias \in CallArgsConnections \cup {ConnD} :
                            managerGetEvents(heap', callerAlias, connectionAlias, -1) = <<>>
    ]_vars

\* C18 witness: stopAll has resolved and emptied a registry that held a
\* gateway ingestor whose stop() threw (it is still connected) and, after
\* it, a gateway ingestor holding an event, which was stopped all the same.
C18_Witness ==
    /\ mlast.op = "stopAll"
    /\ ingestors = <<>>
    /\ \E id \in 1 .. Len(instances) :
           /\ instances[id] # NoInstance
           /\ instances[id].stopCalled
           /\ instances[id].ing.connectionAlias = ConnBX
           /\ instances[id].ing.state = "connected"
    /\ \E id \in 1 .. Len(instances) :
           /\ instances[id] # NoInstance
           /\ instances[id].stopCalled
           /\ instances[id].ing.connectionAlias = ConnD
           /\ instances[id].ing.state = "stopped"
           /\ getEvents(instances[id].ing, -1) # <<>>

\* The connections of the configuration for which createIngestor yields an
\* ingestor.
Creatable(connectionAlias) ==
    ~createIngestor(connectionAlias, RouteIngestor(connectionAlias),
                    RouteSecrets(connectionAlias)).null

\* The calls of startAll that can make a step: a new call, with every
\* iteration to go, and the calls waiting at an await.
StartAllCalls ==
    (IF Len(tasks.startAll) < MaxStartAlls
     THEN {[rest |-> startAllIterations(ConfigCallers), rejected |-> FALSE, new |-> TRUE]}
     ELSE {})
    \cup {[rest |-> tasks.startAll[k].rest, rejected |-> tasks.startAll[k].rejected,
           new |-> FALSE] : k \in 1 .. Len(tasks.startAll)}

\* The registry keys a step has added whose ingestor is in state error.
NewlyFailed(before, after) ==
    {after.ingestors[k].key : k \in
        {k \in 1 .. Len(after.ingestors) :
            /\ ~mapHas(before.ingestors, after.ingestors[k].key)
            /\ after.instances[after.ingestors[k].id].ing.state = "error"}}

\* C19: a start() that fails during startAll() is contained. The failed
\* ingestor stays registered, in state error with its errorMessage set, and
\* the failure is written to console.error by the catch block: in the same
\* step when start() threw, in the step that resumes the call when start()
\* returned a promise that is rejected. startAll goes on: in each of its
\* steps every connection it visits that has an ingestor to create is
\* registered afterwards, an ingestor it has just registered is connected
\* or is a failed one, the ingestors registered before are untouched, the
\* loop is left only at an await or at its end, and at its end the call
\* resolves.
C19_StartAllContainsFailure ==
    [][mlast'.op \in {"startAll awaits", "startAll"} =>
          \E call \in StartAllCalls : \E n \in 0 .. Len(call.rest) :
              LET togo     == call.rest
                  left     == SubSeq(togo, Len(togo) - n + 1, Len(togo))
                  visited  == SubSeq(togo, 1, Len(togo) - n)
                  awaits   == mlast'.op = "startAll awaits"
                  awaited  == IF awaits
                              THEN {Key(visited[Len(visited)].caller,
                                        visited[Len(visited)].connection)}
                              ELSE {}
                  rejected == NewlyFailed(heap, heap') \cap awaited
                  thrown   == NewlyFailed(heap, heap') \ awaited
              IN  /\ awaits => n < Len(togo)
                  /\ ~awaits => n = 0 /\ mlast'.success
                  /\ Len(tasks'.startAll) =
                         Len(tasks.startAll) + (IF awaits THEN 1 ELSE 0)
                                             - (IF call.new THEN 0 ELSE 1)
                  /\ awaits =>
                         \E k \in 1 .. Len(tasks'.startAll) :
                             tasks'.startAll[k] = [rest |-> left, rejected |-> rejected # {}]
                  /\ \A v \in 1 .. Len(visited) :
                         Creatable(visited[v].connection) =>
                             has(heap', visited[v].caller, visited[v].connection)
                  /\ \A k \in 1 .. Len(ingestors') :
                         LET o == instances'[ingestors'[k].id]
                         IN  IF mapHas(heap.ingestors, ingestors'[k].key)
                             THEN /\ ingestors'[k].id = mapGet(heap.ingestors, ingestors'[k].key)
                                  /\ o = heap.instances[ingestors'[k].id]
                             ELSE \/ o.ing.state = "connected" /\ o.ing.errorMessage = UNDEF
                                  \/ /\ o.ing.ingestorType = "websocket"
                                     /\ o.ing.state = "error"
                                     /\ o.ing.errorMessage # UNDEF
                  /\ mlast'.error = IF call.rejected \/ thrown # {}
                                    THEN "Failed to start" ELSE UNDEF
    ]_vars

\* C19 witness: a step of startAll has just logged the failed start() of
\* the first gateway ingestor, which is registered in state error, has
\* registered after it the caller's second gateway ingestor, which is
\* connected, and waits for that one's start(), which is not rejected.
C19_Witness ==
    /\ mlast.op = "startAll awaits"
    /\ mlast.error = "Failed to start"
    /\ Len(tasks.startAll) = 1
    /\ ~tasks.startAll[1].rejected
    /\ \E p, q \in 1 .. Len(ingestors) :
           /\ p < q
           /\ instances[ingestors[p].id].ing.state = "error"
           /\ instances[ingestors[p].id].ing.errorMessage = "Gateway connection failed"
           /\ instances[ingestors[q].id].ing.connectionAlias = ConnD
           /\ instances[ingestors[q].id].ing.state = "connected"

\* The registered webhook ingestors whose connection is configured with the
\* path.
ConfiguredOn(path) ==
    {ingestors[k].id : k \in
        {k \in 1 .. Len(ingestors) :
            /\ instances[ingestors[k].id].ing.ingestorType = "webhook"
            /\ RouteIngestor(instances[ingestors[k].id].ing.connectionAlias).config.path
                   = path}}

\* C20: getWebhookIngestors(path) returns exactly the registered webhook
\* ingestors configured with the path, each once: none for a path nobody
\* listens on, and never an ingestor that was stopped and removed.
C20_WebhookIngestorsByPath ==
    \A path \in WebhookPaths :
        LET got == getWebhookIngestors(Heap(ingestors, instances), path)
        IN  /\ {got[k] : k \in 1 .. Len(got)} = ConfiguredOn(path)
            /\ Len(got) = Cardinality(ConfiguredOn(path))
            /\ \A id \in 1 .. Len(instances) :
                   (instances[id] # NoInstance /\ id \notin Registered) =>
                       \A k \in 1 .. Len(got) : got[k] # id
            /\ (path = "nonexistent") => got = <<>>

\* C20 witness: both callers have a webhook ingestor registered on "github",
\* the second one just started by startOne, and getWebhookIngestors reports
\* the two of them.
C20_Witness ==
    /\ mlast.op = "startOne"
    /\ mlast.success
    /\ Len(getWebhookIngestors(Heap(ingestors, instances), "github")) = 2
    /\ getWebhookIngestors(Heap(ingestors, instances), "nonexistent") = <<>>

-----------------------------------------------------------------------------
(* Claims about polling the manager (SpecPoll) *)

\* The registry positions of the ingestors created for a caller.
OwnEntries(callerAlias) ==
    {k \in 1 .. Len(ingestors) : instances[ingestors[k].id].caller = callerAlias}

\* Every registry entry that getAllEvents reads for the caller is one of the
\* caller's own ingestors.
ReadsOwnOnly(callerAlias) ==
    \A k \in 1 .. Len(ingestors) :
        keyStartsWith(ingestors[k].key, callerAlias) => k \in OwnEntries(callerAlias)

\* What each of the caller's ingestors contributes: the events of its
\* getEvents(afterId), with the ingestor's registry position and the event's
\* position in that answer.
Contributions(callerAlias, afterId) ==
    UNION {
        {[k |-> k, j |-> j,
          event |-> getEvents(instances[ingestors[k].id].ing, afterId)[j]] :
            j \in 1 .. Len(getEvents(instances[ingestors[k].id].ing, afterId))} :
        k \in OwnEntries(callerAlias)}

-----------------------------------------------------------------------------
(* Claims about mergeIngestorConfig (SpecMerge) *)

\* C22: mergeIngestorConfig(template, overrides) leaves its template as it
\* was: read through all its references the template is the same value after
\* the call as before it, and each object it is made of (the config object,
\* its websocket, webhook or poll block, and the arrays and the request body
\* nested in the block) holds the same fields and values.
C22_TemplateNotMutated ==
    mcall.done =>
        /\ Deref(mem, mcall.template) = Deref(mcall.before, mcall.template)
        /\ ObjectsOf(mem, mcall.template) = ObjectsOf(mcall.before, mcall.template)
        /\ \A a \in ObjectsOf(mcall.before, mcall.template) : mem[a] = mcall.before[a]

\* C22 witness: a websocket template that names a guild has been merged with
\* overrides that set intents and other guilds; the result is another object
\* and carries the overrides, and the template still names its own guild.
C22_Witness ==
    /\ mcall.done
    /\ mcall.result # mcall.template
    /\ mcall.overrides.given
    /\ mcall.overrides.value.intents = Given(4609)
    /\ mcall.overrides.value.guildIds.given
    /\ Deref(mem, mcall.template).websocket.given
    /\ Deref(mem, mcall.template).websocket.value.guildIds = Given(ArrayOf(<<"1">>))
    /\ Deref(mem, mcall.result).websocket.value.intents = Given(4609)
    /\ Deref(mem, mcall.result).websocket.value.guildIds = Given(ArrayOf(<<"123", "456">>))

\* The block of a template after the overrides that fit its type.
Overridden(block, fields, o) ==
    [f \in DOMAIN block |->
        IF f \in fields /\ o[f].given
        THEN (IF f = "intervalMs" THEN o[f].value ELSE o[f])
        ELSE block[f]]

\* C23: the result of mergeIngestorConfig is the template with intents,
\* eventFilter, guildIds, channelIds and userIds replaced by the overrides
\* that are set when the template is a websocket one, intervalMs replaced
\* when it is a poll one, every other field (the request body of a poll
\* block included) as in the template and no block the template does not
\* have; without overrides, or with empty ones, it equals the template.
C23_CompatibleOverridesOnly ==
    mcall.done =>
        LET t == Deref(mcall.before, mcall.template)
            r == Deref(mem, mcall.result)
            o == mcall.overrides
        IN  IF ~o.given THEN r = t
            ELSE LET given == DerefObject(mcall.before, o.value)
                 IN  /\ r.type = t.type
                     /\ r.webhook = t.webhook
                     /\ r.websocket =
                            IF t.type = "websocket"
                            THEN Given(Overridden(t.websocket.value,
                                                  {"intents", "eventFilter", "guildIds",
                                                   "channelIds", "userIds"}, given))
                            ELSE Omitted
                     /\ r.poll =
                            IF t.type = "poll"
                            THEN Given(Overridden(t.poll.value, {"intervalMs"}, given))
                            ELSE Omitted
                     /\ (\A f \in DOMAIN given : ~given[f].given) => r = t

\* C23 witness: a poll template has been merged with overrides that set
\* intents, guildIds and intervalMs: the interval is the override's, the
\* other poll fields, the nested request body among them, are the template's
\* and there is no websocket block.
C23_Witness ==
    /\ mcall.done
    /\ mcall.overrides.given
    /\ mcall.overrides.value.intents.given
    /\ mcall.overrides.value.guildIds.given
    /\ mcall.overrides.value.intervalMs.given
    /\ Deref(mcall.before, mcall.template).type = "poll"
    /\ Deref(mem, mcall.result).poll.value.intervalMs = 30000
    /\ Deref(mem, mcall.result).poll.value.url = PollBlock.url
    /\ Deref(mem, mcall.result).poll.value.method = Given("POST")
    /\ Deref(mem, mcall.result).poll.value.body = Given([query |-> "test"])
    /\ Deref(mem, mcall.result).poll.value.deduplicateBy = Given("id")
    /\ Deref(mem, mcall.result).poll.value.responsePath = Given("results")
    /\ Deref(mem, mcall.result).poll.value.eventType = Given("item_updated")
    /\ ~Deref(mem, mcall.result).websocket.given

-----------------------------------------------------------------------------
(* Claims about the lifecycle state of one ingestor (SpecIngestor) *)

\* C24 as stated: start() takes a stopped ingestor to 'starting' first, and
\* 'connected' (or 'error') is entered from 'starting'.
C24_StartPassesThroughStarting ==
    [][/\ (last'.op = "start" /\ ing.state = "stopped" => ing'.state = "starting")
       /\ (ing'.state \in {"connected", "error"} /\ ing'.state # ing.state
               => ing.state = "starting")]_vars

\* C24: a webhook ingestor is constructed in state stopped; start() assigns
\* 'connected' in the call itself, whatever the state was, and changes
\* nothing else, so after start() resolves getStatus().state is connected;
\* the ingestor is never seen in 'starting' or 'error'.
C24_StartConnects ==
    /\ [](/\ (last.op = "new" => getStatus(ing).state = "stopped")
          /\ (last.op = "start" => getStatus(ing).state = "connected")
          /\ ing.state \in {"stopped", "connected"}
          /\ \A s \in IngestorStates :
                 getStatus(start([ing EXCEPT !.state = s])).state = "connected")
    /\ [][last'.op = "start" => ing' = [ing EXCEPT !.state = "connected"]]_vars

\* C24 witness: start() has resolved on an ingestor that had been stopped
\* after receiving an event, and its status says connected.
C24_Witness ==
    /\ last.op = "start"
    /\ getStatus(ing).state = "connected"
    /\ getStatus(ing).totalEventsReceived = 1

\* C25: after stop() resolves getStatus().state is stopped, whatever the
\* state was before (start() called or not), and a second stop() changes
\* nothing.
C25_StopStops ==
    /\ last.op = "stop" => getStatus(ing).state = "stopped"
    /\ \A s \in IngestorStates :
           LET i == [ing EXCEPT !.state = s]
           IN  /\ getStatus(stop(i)).state = "stopped"
               /\ stop(stop(i)) = stop(i)

\* C25 witness: stop() has resolved on an ingestor that holds two events,
\* and its status says stopped.
C25_Witness ==
    /\ last.op = "stop"
    /\ getStatus(ing).state = "stopped"
    /\ getStatus(ing).totalEventsReceived = 2

-----------------------------------------------------------------------------
(* Claims about the capacity of an ingestor's buffer (SpecConstruct) *)

\* C26, as stated: a constructed ingestor's ring buffer has a capacity
\* between 1 and MAX_BUFFER_SIZE inclusive, and DEFAULT_BUFFER_SIZE when no
\* buffer size was given to the constructor or factory.
C26_CapacityInRange ==
    last.op = "construct" =>
        /\ ing.buffer.capacity \in 1 .. MAX_BUFFER_SIZE
        /\ ~last.bufferSize.given => ing.buffer.capacity = DEFAULT_BUFFER_SIZE

-----------------------------------------------------------------------------
(* Claims about startTunnel (SpecTunnel) *)

\* u is a tunnel URL: https://, one or more label characters, the domain.
IsQuickTunnelUrl(u) ==
    /\ Len(u) >= 3
    /\ u[1] = "https://"
    /\ u[Len(u)] = ".trycloudflare.com"
    /\ \A k \in 2 .. Len(u) - 1 : u[k] \in LabelClass

\* u is a run of consecutive pieces of the chunk.
OccursIn(u, chunk) ==
    \E i \in 1 .. Len(chunk) :
        i + Len(u) - 1 <= Len(chunk) /\ SubSeq(chunk, i, i + Len(u) - 1) = u

\* What the first deciding event makes of the promise.
DecidedBy(first, outcome) ==
    \/ /\ first.event = "url"
       /\ outcome.state = "resolved"
       /\ IsQuickTunnelUrl(outcome.url)
       /\ OccursIn(outcome.url, first.chunk)
    \/ /\ first.event = "timeout"
       /\ outcome = [state |-> "rejected", error |-> TimedOut(tun.timeout)]
    \/ /\ first.event = "error"
       /\ outcome = [state |-> "rejected", error |-> FailedToStart]
    \/ /\ first.event = "close"
       /\ outcome = [state |-> "rejected", error |-> ExitedBeforeUrl(first.code)]

\* The promise is pending until the first deciding event, then settled by
\* one call of resolve or reject as that event says.
SettledOnceByFirst ==
    tun.phase = "spawned" =>
        IF tun.first = Null
        THEN tun.outcome = Pending /\ tun.settleCalls = 0
        ELSE DecidedBy(tun.first, tun.outcome) /\ tun.settleCalls = 1

\* A step leaves a settled promise as it is.
OutcomeKept == tun.outcome # Pending => tun'.outcome = tun.outcome

\* C27: once the tunnel process is spawned the promise settles exactly
\* once, as the first of a URL chunk, the timeout, 'error' and 'close'
\* says, and every later event leaves the outcome unchanged.
C27_SettlesOnceByFirstEvent == []SettledOnceByFirst /\ [][OutcomeKept]_vars

\* C27 witness: the promise was resolved by a URL, and afterwards the
\* child emitted 'error' and 'close' and the holder called stop().
C27_Witness ==
    /\ tun.phase = "spawned"
    /\ tun.first # Null
    /\ tun.first.event = "url"
    /\ tun.outcome.state = "resolved"
    /\ tun.child.errored
    /\ tun.child.closed
    /\ Len(tun.stops) = 1

\* The kill() calls of the timeout callback.
TimeoutKills == SelectSeq(tun.kills, LAMBDA k : k.from = "timeout")

\* C28: the timeout is 15000 ms unless given; when the timer fires with
\* nothing settled, the child gets one SIGTERM and the promise is rejected
\* with "Timed out"; when a URL, an error or a close settled the promise
\* first, the timer is cancelled and the timeout sends no signal.
C28_TimeoutSignalsOnlyUnsettled ==
    tun.phase = "spawned" =>
        /\ ~tun.options.given => tun.timeout = DEFAULT_TUNNEL_TIMEOUT
        /\ tun.timer.deadline = tun.timeout
        /\ tun.timer.state = "fired" => tun.clock >= tun.timeout
        /\ tun.first # Null /\ tun.first.event = "timeout" =>
               /\ tun.timer.state = "fired"
               /\ Len(TimeoutKills) = 1
               /\ TimeoutKills[1].signal = "SIGTERM"
               /\ tun.outcome = [state |-> "rejected", error |-> TimedOut(tun.timeout)]
        /\ tun.first # Null /\ tun.first.event # "timeout" =>
               /\ tun.timer.state = "cleared"
               /\ TimeoutKills = <<>>
        /\ tun.first = Null => TimeoutKills = <<>>

\* C28 witness: no timeout was given, the clock reached 15000 ms with the
\* promise unsettled, the timer fired and the child was sent SIGTERM.
C28_Witness ==
    /\ tun.phase = "spawned"
    /\ ~tun.options.given
    /\ tun.clock = DEFAULT_TUNNEL_TIMEOUT
    /\ tun.first = [event |-> "timeout"]
    /\ Len(TimeoutKills) = 1
    /\ TimeoutKills[1].delivered

\* The promise of isCloudflaredAvailable has been resolved with false.
NotAvailable == tun.available = [state |-> "resolved", value |-> FALSE]

\* C29: isCloudflaredAvailable resolves true only when the version child
\* closed with exit code 0 without an error before, and false on an error
\* or a non-zero exit. Once it is false no tunnel process, timer or signal
\* ever exists; startTunnel stays pending only until it resumes after the
\* await, the step in which it resumes rejects it with "cloudflared binary
\* not found", and it does resume. A tunnel process is spawned only after
\* the value true.
C29_PreflightGuardsSpawn ==
    /\ [](/\ (tun.available # Pending /\ tun.available.value =>
                  /\ tun.vchild.closed /\ ~tun.vchild.errored
                  /\ tun.vchild.exitCode = [code |-> 0])
          /\ (tun.vchild.errored
                  \/ (tun.vchild.closed /\ tun.vchild.exitCode # [code |-> 0]) =>
                  NotAvailable)
          /\ (NotAvailable =>
                  /\ tun.spawns = 0
                  /\ tun.child = NoChild
                  /\ tun.timer = NoTimer
                  /\ tun.kills = <<>>
                  /\ tun.outcome = IF tun.phase = "preflight" THEN Pending
                                   ELSE [state |-> "rejected", error |-> BinaryNotFound])
          /\ (tun.spawns >= 1 => tun.available = [state |-> "resolved", value |-> TRUE]))
    /\ [][NotAvailable /\ tun.phase = "preflight" /\ tun'.phase # "preflight" =>
              /\ tun'.outcome = [state |-> "rejected", error |-> BinaryNotFound]
              /\ tun'.spawns = 0 /\ tun'.child = NoChild]_vars
    /\ (NotAvailable ~> tun.outcome = [state |-> "rejected", error |-> BinaryNotFound])

\* C29 witness: the version child could not be spawned and emitted 'error'
\* and then 'close' before startTunnel resumed; startTunnel then resumed and
\* was rejected without a tunnel process.
C29_Witness ==
    /\ tun.vchild.errored
    /\ tun.vchild.closed
    /\ tun.vchild.exitCode = [code |-> ENOENT]
    /\ tun.phase = "notfound"
    /\ tun.outcome = [state |-> "rejected", error |-> BinaryNotFound]
    /\ tun.spawns = 0

\* The kill() calls of the stop() calls.
StopKills == SelectSeq(tun.kills, LAMBDA k : k.from = "stop")

\* The stop() calls that did not return at once.
StopsWaiting == SelectSeq(tun.stops, LAMBDA st : ~st.returned)

\* C30, as stated: a stop() called after the process has exited returns at
\* once and sends no signal; any other stop() sends SIGTERM, is resolved
\* once the child has closed, and sends SIGKILL when the child has not
\* closed within 5 seconds, the timer being cancelled on close.
C30_StopNoOpAfterExit ==
    /\ \A k \in 1 .. Len(tun.stops) :
           LET st == tun.stops[k]
           IN  IF st.hadExited
               THEN st.returned /\ st.resolved /\ st.killTimer = NoTimer
               ELSE /\ ~st.returned
                    /\ st.resolved = tun.child.closed
                    /\ tun.child.closed => st.killTimer.state \in {"cleared", "fired"}
                    /\ st.killTimer.state = "fired" => tun.clock >= st.killTimer.deadline
    /\ Len(StopKills) = Cardinality({k \in 1 .. Len(tun.stops) : ~tun.stops[k].hadExited})

-----------------------------------------------------------------------------
(* Claims about the isolation of callers (SpecManager) *)

\* C31, as stated: what getAllEvents and getStatuses read for a caller are
\* ingestors created for that caller; getEvents(caller, connection) reads
\* the ingestor created for that caller and connection; and a registry key
\* belongs to one (caller, connection) pair only.
C31_CallerIsolation ==
    LET h == Heap(ingestors, instances)
    IN  /\ \A callerAlias \in CallArgsCallers :
               \A k \in 1 .. Len(entriesOf(h, callerAlias)) :
                   instances[entriesOf(h, callerAlias)[k].id].caller = callerAlias
        /\ \A pair \in CallPairs :
               mapHas(ingestors, Key(pair[1], pair[2])) =>
                   LET i == instances[mapGet(ingestors, Key(pair[1], pair[2]))]
                   IN  i.caller = pair[1] /\ i.ing.connectionAlias = pair[2]
        /\ \A p, q \in CallPairs :
               (mapHas(ingestors, Key(p[1], p[2])) /\ p # q) => Key(p[1], p[2]) # Key(q[1], q[2])

-----------------------------------------------------------------------------
(* Claims about a client polling with a cursor (SpecPollClient) *)

\* C32, as stated: right after a poll of getAllEvents(caller, cursor) by a
\* client that advances its cursor to the highest id returned, every event
\* buffered in one of the caller's ingestors has been received.
C32_PollAllNeverMisses ==
    (client.polling /\ mlast.op = "clientPoll") =>
        \A k \in OwnEntries(client.caller) :
            LET buffered == toArray(instances[ingestors[k].id].ing.buffer)
            IN  \A j \in 1 .. Len(buffered) :
                    \E p \in 1 .. Len(client.received) : client.received[p] = buffered[j]

-----------------------------------------------------------------------------
(* Claims about a client following one ingestor (SpecFollow) *)

\* The ids of the events the client has received, in the order received.
ReceivedIds == [p \in 1 .. Len(client.received) |-> client.received[p].id]

\* C33: a client that polls getEvents(cursor) from cursor -1 and advances
\* to the highest id returned, on a buffer that is not cleared, receives
\* events in id order and none twice; right after a poll it has received
\* everything that is buffered, so what it lacks was evicted before the
\* poll; and if no more than `capacity` events arrived before each poll, it
\* has received every event pushed so far.
C33_FollowerReceivesEachOnce ==
    (client.polling /\ ~client.cleared) =>
        /\ \A p, q \in 1 .. Len(ReceivedIds) : p < q => ReceivedIds[p] < ReceivedIds[q]
        /\ \A p \in 1 .. Len(ReceivedIds) :
               \E k \in 1 .. Len(issued) : issued[k] = ReceivedIds[p]
        /\ last.op = "clientGetEvents" =>
               /\ \A j \in 1 .. size(ing.buffer) :
                      \E p \in 1 .. Len(client.received) :
                          client.received[p] = toArray(ing.buffer)[j]
               /\ ~client.overrun => ReceivedIds = issued

\* C33 witness: on a buffer of capacity 2 the client has polled after the
\* first event and again after two more, and has received all three.
C33_Witness ==
    /\ client.polling
    /\ ~client.cleared
    /\ ~client.overrun
    /\ last.op = "clientGetEvents"
    /\ ing.buffer.capacity = 2
    /\ ReceivedIds = <<0, 1, 2>>
    /\ issued = <<0, 1, 2>>

-----------------------------------------------------------------------------
(* Claims about startAll and stopAll taking turns (SpecInterleave) *)

\* C34, as stated: when stopAll resolves, every ingestor object that is no
\* longer in the registry has had stop() called on it.
C34_NoneLeftRunning ==
    mlast.op = "stopAll" =>
        \A id \in 1 .. Len(instances) :
            (instances[id] # NoInstance
                /\ ~\E k \in 1 .. Len(ingestors) : ingestors[k].id = id)
            => instances[id].stopCalled

-----------------------------------------------------------------------------
(* Claims about deliveries and the lifecycle state (SpecIngestor) *)

\* C35, as stated: handleWebhook pushes an event only while the ingestor's
\* state is connected. (handleWebhook leaves the state as it is, so the
\* state after the call is the state the call found.)
C35_BuffersOnlyWhileConnected ==
    (last.op = "handleWebhook" /\ last.accepted /\ last.reason = UNDEF) =>
        ing.state = "connected"

\* The reason the order of the checks prescribes for a request, or UNDEF
\* when none of the four rejections applies.
RejectionInOrder(headers, rawBody) ==
    LET configured == Truthy(ing.signatureHeader) /\ Truthy(ing.signatureSecretName)
        secret     == SecretLookup(ing.secrets, ing.signatureSecretName)
    IN  IF configured /\ ~Truthy(secret) THEN "Signature secret not configured"
        ELSE IF configured /\ headers.signature \in {SigAbsent, SigEmpty}
        THEN "Missing signature header"
        ELSE IF configured /\ headers.signature # GitHubSignature(secret, rawBody)
        THEN "Signature verification failed"
        ELSE IF rawBody = BodyNotJson THEN "Invalid JSON body"
        ELSE UNDEF

\* C36: a handleWebhook call that returns rejects with the first that applies of "Signature
\* secret not configured", "Missing signature header", "Signature
\* verification failed", "Invalid JSON body" (the first three only when
\* verification is configured), and accepts otherwise; so a malformed body
\* with a bad signature is rejected for the signature, and "Invalid JSON
\* body" is returned only when the signature verified or verification is
\* skipped.
C36_RejectionOrder ==
    /\ \A headers \in RequestHeaders, rawBody \in Bodies :
           LET out == handleWebhook(ing, headers, rawBody, now)
           IN  ~out.threw =>
                   /\ RejectionInOrder(headers, rawBody) # UNDEF =>
                          ~out.accepted /\ out.reason = RejectionInOrder(headers, rawBody)
                   /\ RejectionInOrder(headers, rawBody) = UNDEF => out.accepted
    /\ last.op = "handleWebhook" =>
           /\ (last.checked /\ last.malformed /\ ~last.genuine) =>
                  last.reason # "Invalid JSON body"
           /\ last.reason = "Invalid JSON body" =>
                  last.malformed /\ (last.genuine \/ ~last.checked)

\* C36 witness: a request with a malformed body and a signature that does
\* not verify was rejected with "Signature verification failed".
C36_Witness ==
    /\ last.op = "handleWebhook"
    /\ last.checked
    /\ last.malformed
    /\ ~last.genuine
    /\ ~last.accepted
    /\ last.reason = "Signature verification failed"

-----------------------------------------------------------------------------
(* Claims about the termination of stop() (SpecTunnelLive) *)

\* C37, as stated: every call of stop() eventually resolves, given that a
\* child that was sent SIGTERM or SIGKILL exits and emits 'close'.
C37_EveryStopResolves ==
    \A k \in 1 .. MaxStops :
        (Len(tun.stops) >= k) ~> (Len(tun.stops) >= k /\ tun.stops[k].resolved)

-----------------------------------------------------------------------------
(* Claims about the status of an uncleared ingestor (SpecFollow) *)

\* The ids of the buffered events, oldest first.
BufferedIds == [k \in 1 .. size(ing.buffer) |-> toArray(ing.buffer)[k].id]

\* C38: for an ingestor whose buffer was never cleared, the buffered ids are
\* exactly the contiguous range totalEventsReceived - bufferedEvents ..
\* totalEventsReceived - 1, oldest first, bufferedEvents is
\* min(totalEventsReceived, capacity), and so bufferedEvents never exceeds
\* totalEventsReceived.
C38_BufferedIdsAreLatestRange ==
    ~client.cleared =>
        LET status   == getStatus(ing)
            total    == status.totalEventsReceived
            buffered == status.bufferedEvents
        IN  /\ buffered = Min(total, ing.buffer.capacity)
            /\ buffered <= total
            /\ Len(toArray(ing.buffer)) = buffered
            /\ \A k \in 1 .. Len(toArray(ing.buffer)) :
                   toArray(ing.buffer)[k].id = total - buffered + k - 1

\* C38 witness: an uncleared ingestor of capacity 2 has received three
\* events, so that event 0 was overwritten and the ids 1, 2 are buffered.
C38_Witness ==
    /\ ~client.cleared
    /\ ing.buffer.capacity = 2
    /\ getStatus(ing).totalEventsReceived = 3
    /\ getStatus(ing).bufferedEvents = 2
    /\ BufferedIds = <<1, 2>>

-----------------------------------------------------------------------------
(* Claims about a cleared ring buffer (SpecRing) *)

RECURSIVE pushAll(_, _)
\* The buffer r after the items were pushed into it one after another.
pushAll(r, items) ==
    IF items = <<>> THEN r ELSE pushAll(push(r, Head(items)), Tail(items))

\* C39: a buffer that was cleared answers toArray(), size and since() as a
\* newly constructed buffer of the same capacity does after the same pushes:
\* right after clear() it is empty, and after any pushes made since the last
\* clear() the three results equal those of a new buffer given these pushes.
C39_ClearedIsLikeNew ==
    everCleared =>
        LET fresh == pushAll(RingBuffer(rb.capacity), pushed)
        IN  /\ (pushed = <<>> => size(rb) = 0 /\ toArray(rb) = <<>>)
            /\ size(rb) = size(fresh)
            /\ toArray(rb) = toArray(fresh)
            /\ \A afterId \in RingCursors : since(rb, afterId) = since(fresh, afterId)

\* C39 witness: a cleared buffer of capacity 3 into which four items were
\* pushed since, the oldest of them overwritten, and since(0) returns some
\* but not all of what is stored.
C39_Witness ==
    /\ everCleared
    /\ rb.capacity = 3
    /\ Len(pushed) = 4
    /\ toArray(rb) = SubSeq(pushed, 2, 4)
    /\ since(rb, 0) # <<>>
    /\ Len(since(rb, 0)) < size(rb)

=============================================================================
